---- MODULE Spec2Model ----
(***************************************************************************)
(* A model of the S25FL064L SPI flash driver (S25FL064L.c), of the block   *)
(* device adapter that LittleFS calls (filesystem.c) and of the chip and   *)
(* the SPI transport they talk to.                                         *)
(*                                                                         *)
(* The driver is translated function by function.  Every driver function   *)
(* takes the device handle h and a "world" w (the chip, the chip-select    *)
(* line, the log of what happened on the bus and the environment's choices *)
(* for this call) and returns the handle, the world and the error code.    *)
(* One action of the state machine is one call of a public function.       *)
(***************************************************************************)
EXTENDS Integers, Sequences, FiniteSets, TLC

VARIABLES
    h,      \* the device handle (s25fl064_t Flash)
    chip,   \* the flash chip: memory, write-enable latch, write in progress
    cs,     \* the chip-select line: TRUE while the chip is selected
    last,   \* the last call: function, arguments, result, bus log, state before
    prev,   \* a summary of the call before the last one
    life,   \* outcome of the most recent Init or Reset call
    nops,   \* number of calls made so far
    call    \* the call in progress, where calls are followed poll by poll

vars == <<h, chip, cs, last, prev, life, nops, call>>

(***************************************************************************)
(* Bounds of the model.                                                    *)
(***************************************************************************)
\* number of calls in one run: with faults, of data transfers, of whole blocks
MaxOps == 2
MaxLifeOps == 3
MaxDataOps == 3
MaxBlockOps == 3
MaxDevOps == 3
MaxBusyOps == 1
\* largest number of status reads of one poll that see write-in-progress
MaxPolls == 3
MaxStepOps == 2
MaxErrOps == 1
MaxAdapterOps == 1
MaxHandleOps == 2
MaxFsOps == 2
MaxReadOps == 2
MaxTestSectors == 4
MaxFileOps == 1
MaxAbsentOps == 2
\* largest number of status reads that still see write-in-progress
MaxBusy == 1
\* a transport failure is injected at one of the first MaxFail exchanges
MaxFail == 8
\* the chip refuses the write enable from one of the first MaxWel on
MaxWel == 2

(***************************************************************************)
(* Program constants.                                                      *)
(***************************************************************************)
S25FL064L_CMD_RSFDP == 90
S25FL064L_CMD_DPD == 185
S25FL064L_CMD_RES == 171
S25FL064L_CMD_RDID == 159
S25FL064L_CMD_CE == 96
S25FL064L_CMD_RUID == 75
S25FL064L_CMD_CLSR == 48
S25FL064L_CMD_SE == 33
S25FL064L_CMD_RDCR2 == 21
S25FL064L_CMD_4READ == 19
S25FL064L_CMD_4PP == 18
S25FL064L_CMD_WREN == 6
S25FL064L_CMD_RDSR2 == 7
S25FL064L_CMD_RDSR1 == 5

S25FL064L_BIT_ADDR_LENGTH == 0
S25FL064L_BIT_BUSY == 0
S25FL064L_BIT_WEL == 1

S25FL064L_MASK_PROG_ERROR == 1
S25FL064L_MASK_ERASE_ERROR == 2

S25FL064L_PAGE_SIZE == 256
S25FL064L_SECTOR_COUNT == 2048
S25FL064L_SECTOR_SIZE == 4096
\* read_size and prog_size of FileSystemConfig
LFS_BUFFER_SIZE == 128
S25FL064L_DEVICE_ID == 24599

S25FL064_NO_ERROR == 0
S25FL064_INVALID_PARAM == 1
S25FL064_NOT_INITIALIZED == 3
S25FL064_WRITE_PROTECTED == 4

\* sizeof(flash_params_t): header and two parameter headers of 8 bytes each
SizeofParams == 24

(***************************************************************************)
(* Bytes.                                                                  *)
(***************************************************************************)
\* LET x == v IN F(x), with v evaluated once, before F
Let(v, F(_)) == CHOOSE r \in {F(x) : x \in {v}} : TRUE

Min(a, b) == IF a < b THEN a ELSE b
Max(a, b) == IF a > b THEN a ELSE b

Pow2(n) == 2 ^ n

\* bit n of a value (value & (1 << n)) != 0
Bit(v, n) == (v \div Pow2(n)) % 2 = 1

\* a & b on bytes
RECURSIVE BitAndN(_, _, _)
BitAndN(a, b, n) ==
    IF n = 0 THEN 0
    ELSE (IF a % 2 = 1 /\ b % 2 = 1 THEN 1 ELSE 0)
         + 2 * BitAndN(a \div 2, b \div 2, n - 1)

BitAnd(a, b) == IF a = 255 THEN b ELSE IF b = 255 THEN a ELSE BitAndN(a, b, 8)

\* n zero bytes
Zeros(n) == [i \in 1..n |-> 0]

\* the four address bytes of a command frame, most significant first
AddrBytes(Address) ==
    << (Address \div 16777216) % 256,
       (Address \div 65536) % 256,
       (Address \div 256) % 256,
       Address % 256 >>

(***************************************************************************)
(* The caller's buffers.  A buffer is named by a pattern and a base: byte  *)
(* i (from 0) of buffer <<pat, base>> is PatByte(pat, base + i), so that   *)
(* <<pat, base + k>> is the buffer that starts at byte k of <<pat, base>>. *)
(* No byte of a pattern is 255, the erased value, and byte 256 differs     *)
(* from byte 0.                                                            *)
(***************************************************************************)
PatByte(pat, i) == (pat * 64 + i + (i \div 256)) % 255

BufBytes(pat, base, off, len) == [i \in 1..len |-> PatByte(pat, base + off + i - 1)]

(***************************************************************************)
(* The chip.  mem maps the programmed pages to their bytes; every other     *)
(* address holds the erased value 255.  wip counts the status reads        *)
(* that will still see write-in-progress; wel is the write-enable latch;   *)
(* dpd tells whether the chip is in deep power down, where it answers      *)
(* nothing and obeys only the release command and the reset pin; sr2 is    *)
(* status register 2, whose bits 5 and 6 latch a failed program and a      *)
(* failed erase until the clear status command or a reset.                 *)
(***************************************************************************)
ErasedByte == 255

ChipMID == 1
ChipUID == << 17, 34, 51, 68, 85, 102, 119, 136 >>
\* configuration register 2 values of the chips modelled (impedance bits 5-6 set)
ChipCR2 == {96}
ChipDID == {S25FL064L_DEVICE_ID}

\* the memory: the pages that hold a programmed byte, each with its 256 bytes
EmptyMem == [p \in {} |-> << >>]

ErasedPage == [i \in 1..S25FL064L_PAGE_SIZE |-> ErasedByte]

PageOf(a) == a \div S25FL064L_PAGE_SIZE

PageAt(m, p) == IF p \in DOMAIN m THEN m[p] ELSE ErasedPage

MemAt(m, a) ==
    IF PageOf(a) \in DOMAIN m
    THEN m[PageOf(a)][(a % S25FL064L_PAGE_SIZE) + 1]
    ELSE ErasedByte

\* the bytes of len addresses from a
MemRange(m, a, len) == [i \in 1..len |-> MemAt(m, a + i - 1)]

\* a memory in its normal form: no erased page is stored
Norm(m) == [p \in {x \in DOMAIN m : m[x] # ErasedPage} |-> m[p]]

\* Page program: byte i of the payload lands at Address + i inside the page
\* of Address and wraps to the start of that page at its end; bits are only
\* cleared.
\* the position in the payload of the byte that lands at offset o of the page
\* of Address, counted from 0 from the first byte the chip keeps
PayloadIndex(Address, o) == (o - (Address % S25FL064L_PAGE_SIZE)) % S25FL064L_PAGE_SIZE

\* the chip keeps the last 256 bytes of a longer payload
ChipProgram(m, Address, data) ==
    Let(Min(Len(data), S25FL064L_PAGE_SIZE), LAMBDA n :
    Let(PageAt(m, PageOf(Address)), LAMBDA old :
    Let([i \in 1..S25FL064L_PAGE_SIZE |->
           IF PayloadIndex(Address, i - 1) < n
           THEN BitAnd(old[i], data[Len(data) - n + 1 + PayloadIndex(Address, i - 1)])
           ELSE old[i]], LAMBDA new :
    Let([p \in (DOMAIN m) \cup {PageOf(Address)} |->
           IF p = PageOf(Address) THEN new ELSE m[p]],
        LAMBDA m2 : Norm(m2)))))

ChipEraseSector(m, Address) ==
    [p \in {x \in DOMAIN m :
              (x * S25FL064L_PAGE_SIZE) \div S25FL064L_SECTOR_SIZE
              # Address \div S25FL064L_SECTOR_SIZE}
       |-> m[p]]

\* the latched error bits of status register 2: P_ERR and E_ERR
ChipPErr == 32
ChipEErr == 64

\* status register 1: write in progress is bit 0, write-enable latch is bit 1
ChipSR1(c) == (IF c.wip > 0 THEN 1 ELSE 0) + (IF c.wel THEN 2 ELSE 0)

\* the frame the chip has received since chip select fell: its first five
\* bytes, the payload of a page program, and the number of bytes clocked
NoFrame == [hd |-> << >>, data |-> << >>, pos |-> 0]

FrameOp(fr) == IF Len(fr.hd) > 0 THEN fr.hd[1] ELSE -1

FrameAddr(fr) ==
    IF Len(fr.hd) >= 5
    THEN fr.hd[2] * 16777216 + fr.hd[3] * 65536 + fr.hd[4] * 256 + fr.hd[5]
    ELSE 0

Absorb(fr, mosi) ==
    LET k == Min(5 - Len(fr.hd), Len(mosi))
        hd == fr.hd \o SubSeq(mosi, 1, k)
    IN [hd |-> hd,
        data |-> IF hd[1] = S25FL064L_CMD_4PP
                 THEN fr.data \o SubSeq(mosi, k + 1, Len(mosi))
                 ELSE fr.data,
        pos |-> fr.pos + Len(mosi)]

\* the byte the chip drives at position p (from 1) of frame fr
ChipOut(c, fr, p) ==
    LET op == FrameOp(fr) IN
    IF p < 2 \/ c.dpd THEN 0
    ELSE IF c.wip > 0 /\ op # S25FL064L_CMD_RDSR1 THEN 0
    ELSE IF op = S25FL064L_CMD_RDSR1 THEN ChipSR1(c)
    ELSE IF op = S25FL064L_CMD_RDSR2 THEN c.sr2
    ELSE IF op = S25FL064L_CMD_RDCR2 THEN c.cr2
    ELSE IF op = S25FL064L_CMD_RDID
         THEN (IF p = 2 THEN ChipMID
               ELSE IF p = 3 THEN c.did \div 256
               ELSE IF p = 4 THEN c.did % 256 ELSE 0)
    ELSE IF op = S25FL064L_CMD_RUID
         THEN (IF p >= 6 /\ p <= 13 THEN ChipUID[p - 5] ELSE 0)
    ELSE IF op = S25FL064L_CMD_4READ
         THEN (IF p >= 6 THEN MemAt(c.mem, FrameAddr(fr) + p - 6) ELSE 0)
    ELSE 0

\* a status read that was answered lets the time of one poll pass: the
\* operation in progress, if any, comes one step nearer to its end, and the
\* latch is cleared when it ends
ChipTick(c) ==
    IF c.wip > 0
    THEN [c EXCEPT !.wip = c.wip - 1, !.wel = c.wel /\ (c.wip - 1 > 0)]
    ELSE c

\* what the chip does with frame fr when chip select rises.  busy is the
\* number of polls the started operation (a program, an erase, the release
\* from deep power down) will take; latch tells whether the chip accepts this
\* write enable.
ChipExecute(c, fr, busy, latch) ==
    LET op == FrameOp(fr) IN
    IF c.wip > 0 THEN c
    ELSE IF c.dpd
         THEN (IF op = S25FL064L_CMD_RES /\ fr.pos = 1
               THEN [c EXCEPT !.dpd = FALSE, !.wip = busy] ELSE c)
    ELSE IF op = S25FL064L_CMD_DPD /\ fr.pos = 1
         THEN [c EXCEPT !.dpd = TRUE, !.wel = FALSE]
    ELSE IF op = S25FL064L_CMD_WREN /\ fr.pos = 1
         THEN [c EXCEPT !.wel = c.wel \/ latch]
    ELSE IF op = S25FL064L_CMD_CLSR /\ fr.pos = 1
         THEN [c EXCEPT !.sr2 = c.sr2 - BitAnd(c.sr2, ChipPErr + ChipEErr)]
    ELSE IF op = S25FL064L_CMD_4PP /\ c.wel /\ fr.pos > 5
         THEN [c EXCEPT !.mem = ChipProgram(c.mem, FrameAddr(fr), fr.data),
                        !.wip = busy, !.wel = (busy > 0)]
    ELSE IF op = S25FL064L_CMD_SE /\ c.wel /\ fr.pos = 5
         THEN [c EXCEPT !.mem = ChipEraseSector(c.mem, FrameAddr(fr)),
                        !.wip = busy, !.wel = (busy > 0)]
    ELSE IF op = S25FL064L_CMD_CE /\ c.wel /\ fr.pos = 1
         THEN [c EXCEPT !.mem = EmptyMem, !.wip = busy, !.wel = (busy > 0)]
    ELSE c

(***************************************************************************)
(* The world of one call and the transport.  env holds the environment's   *)
(* choices for the call: failAt is the exchange (counted from 1) at which  *)
(* the transport fails with error code (0: none fails), busy the number of *)
(* polls a program or erase takes, welFrom the write-enable command from   *)
(* which on the chip does not set its latch (0: it always does).           *)
(***************************************************************************)
\* a byte of an automatic array that was never assigned
Indeterminate == -1

World(c, line, env) ==
    [c |-> c, cs |-> line, fr |-> NoFrame, log |-> << >>, n |-> 0, nw |-> 0,
     env |-> env]

\* one entry of the bus log.  k: "cs", "reset", "busy" or "rw" (an exchange);
\* sel: the chip-select line; tx, off, len: the bytes sent, their offset in
\* the caller's buffer and their number; rxn: the number of bytes to receive;
\* rx: the bytes received with a command; err: the transport's result; c: the chip at that moment
LogEntry(k, sel, tx, off, len, rxn, rx, err, c) ==
    [k |-> k, sel |-> sel, tx |-> tx, off |-> off, len |-> len, rxn |-> rxn,
     rx |-> rx,
     err |-> err, wip |-> c.wip > 0, wel |-> c.wel]

\* Flash_CS: drives the chip-select pin.  The chip starts a frame when the
\* line falls and executes the frame it received when the line rises.
P_CS(w, Select) ==
    LET e == LogEntry("cs", Select, << >>, -1, 0, 0, << >>, 0, w.c)
        isWren == FrameOp(w.fr) = S25FL064L_CMD_WREN /\ w.c.wip = 0
        nw == IF isWren THEN w.nw + 1 ELSE w.nw
        latch == ~(w.env.welFrom > 0 /\ nw >= w.env.welFrom)
    IN IF Select
       THEN [w EXCEPT !.log = Append(w.log, e), !.cs = TRUE,
                      !.fr = IF w.cs THEN w.fr ELSE NoFrame]
       ELSE [w EXCEPT !.log = Append(w.log, e), !.cs = FALSE, !.fr = NoFrame,
                      !.nw = IF w.cs THEN nw ELSE w.nw,
                      !.c = IF w.cs
                            THEN ChipExecute(w.c, w.fr, w.env.busy, latch)
                            ELSE w.c]

\* Flash_Reset: releases chip select and pulses the reset pin.  The chip
\* drops what it was doing and clears its latch.
P_Reset(w) ==
    [w EXCEPT !.log = Append(w.log,
                             LogEntry("reset", FALSE, << >>, -1, 0, 0, << >>, 0, w.c)),
              !.cs = FALSE, !.fr = NoFrame,
              !.c = [w.c EXCEPT !.wip = 0, !.wel = FALSE, !.dpd = FALSE,
                                !.sr2 = w.c.sr2 - BitAnd(w.c.sr2, ChipPErr + ChipEErr)]]

\* Flash_Busy: feeds the watchdog
P_Busy(w) ==
    [w EXCEPT !.log = Append(w.log,
                             LogEntry("busy", FALSE, << >>, -1, 0, 0, << >>, 0, w.c))]

\* One exchange p_RW(p_Tx_Data, Tx_Length, p_Rx_Data, Rx_Length).  tx are the
\* bytes sent; off is the offset of tx in the caller's buffer, or -1 when tx
\* is a command of the driver (only then the log keeps the bytes sent and
\* received).  The bus clocks max(Tx_Length, Rx_Length) bytes, sending 0 once
\* tx is exhausted.  The driver is written against the function pointer type
\* s25fl06_rw_fptr_t, whose result is a communication error code: the
\* exchange env.failAt of a call fails with env.code and does not reach the
\* chip.
P_RW(w, tx, off, rxn) ==
    Let(w.n + 1, LAMBDA n :
    Let(Max(Len(tx), rxn), LAMBDA clocks :
    Let(w.env.failAt # n /\ w.cs /\ clocks > 0, LAMBDA delivered :
    Let(IF delivered THEN Absorb(w.fr, tx \o Zeros(clocks - Len(tx))) ELSE w.fr,
        LAMBDA fr :
    Let(IF delivered
        THEN [k \in 1..rxn |-> ChipOut(w.c, fr, w.fr.pos + k)]
        ELSE Zeros(rxn), LAMBDA rx :
    Let(IF w.env.failAt = n THEN w.env.code ELSE S25FL064_NO_ERROR, LAMBDA err :
        [w |-> [w EXCEPT !.n = n,
                         !.fr = fr,
                         !.log = Append(w.log,
                                        LogEntry("rw", w.cs,
                                                 IF off = -1 THEN tx ELSE << >>,
                                                 off, Len(tx), rxn,
                                                 IF Len(tx) > 0 THEN rx ELSE << >>,
                                                 err, w.c)),
                         !.c = IF delivered /\ FrameOp(fr) = S25FL064L_CMD_RDSR1
                                  /\ fr.pos >= 2
                               THEN ChipTick(w.c) ELSE w.c],
         err |-> err,
         rx |-> rx]))))))

(***************************************************************************)
(* The driver (S25FL064L.c).  The arguments hh and w of every function are *)
(* values: each step binds its result with Let before the next step reads  *)
(* it.                                                                     *)
(***************************************************************************)
\* a faulty variant of Ret: a call that fails marks the handle uninitialized
RetFailedUninit(hh, w, err) ==
    [h |-> IF err # 0 THEN [hh EXCEPT !.isInitialized = FALSE] ELSE hh,
     w |-> w, err |-> err]

Ret(hh, w, err) == [h |-> hh, w |-> w, err |-> err]

\* a faulty variant of S25FL064L_Command: chip select stays asserted when the
\* exchange fails
CommandKeepsSelect(hh, w, Command, hasData, Length) ==
    IF ~hh.p_RW \/ ~hh.p_CS \/ (~hasData /\ Length > 0)
    THEN [w |-> w, err |-> S25FL064_INVALID_PARAM, rx |-> << >>]
    ELSE Let(P_CS(w, TRUE), LAMBDA w1 :
         Let(P_RW(w1, Command, -1, Length), LAMBDA r :
         [w |-> IF r.err # S25FL064_NO_ERROR THEN r.w ELSE P_CS(r.w, FALSE),
          err |-> r.err, rx |-> r.rx]))

\* S25FL064L_Command.  hasData: p_Data is not NULL.
S25FL064L_Command(hh, w, Command, hasData, Length) ==
    IF ~hh.p_RW \/ ~hh.p_CS \/ (~hasData /\ Length > 0)
    THEN [w |-> w, err |-> S25FL064_INVALID_PARAM, rx |-> << >>]
    ELSE Let(P_CS(w, TRUE), LAMBDA w1 :
         Let(P_RW(w1, Command, -1, Length), LAMBDA r :
         [w |-> P_CS(r.w, FALSE), err |-> r.err, rx |-> r.rx]))

\* a faulty variant of BusyCallback: the callback is invoked twice
BusyCallbackTwice(hh, w) == IF hh.p_Busy THEN P_Busy(P_Busy(w)) ELSE w

\* if(p_Device->p_Busy) p_Device->p_Busy();
BusyCallback(hh, w) == IF hh.p_Busy THEN P_Busy(w) ELSE w

\* a faulty variant of StillBusy: the loop never ends
StillBusyAlways(status) == TRUE

\* a faulty variant of StillBusy: the loop ends after its first read
StillBusyNever(status) == FALSE

\* while(Rx_Buffer[1] & (0x01 << S25FL064L_BIT_BUSY)): the loop goes on
StillBusy(status) == Bit(status, S25FL064L_BIT_BUSY)

\* One iteration of the do-while loop of S25FL064L_WaitBusy: again tells
\* whether the loop goes on, err is the value returned when it does not.
WaitBusyStep(hh, w) ==
    Let(S25FL064L_Command(hh, w, << S25FL064L_CMD_RDSR1 >>, TRUE, 2), LAMBDA r :
    IF r.err # S25FL064_NO_ERROR
    THEN [w |-> r.w, err |-> r.err, again |-> FALSE]
    ELSE [w |-> BusyCallback(hh, r.w), err |-> r.err, again |-> StillBusy(r.rx[2])])

\* S25FL064L_WaitBusy
RECURSIVE S25FL064L_WaitBusy(_, _)
S25FL064L_WaitBusy(hh, w) ==
    Let(WaitBusyStep(hh, w), LAMBDA r :
    IF r.again THEN S25FL064L_WaitBusy(hh, r.w) ELSE [w |-> r.w, err |-> r.err])

\* S25FL064L_Reset
S25FL064L_Reset(hh, w) ==
    IF ~hh.p_Reset
    THEN Ret(hh, w, S25FL064_INVALID_PARAM)
    ELSE Ret([hh EXCEPT !.isInitialized = FALSE], P_Reset(w), S25FL064_NO_ERROR)

\* S25FL064L_EnterPowerDown
S25FL064L_EnterPowerDown(hh, w) ==
    Let(S25FL064L_Command(hh, w, << S25FL064L_CMD_DPD >>, FALSE, 0), LAMBDA r :
    IF r.err # S25FL064_NO_ERROR
    THEN Ret(hh, r.w, r.err)
    ELSE Ret([hh EXCEPT !.isPowerDown = TRUE], r.w, r.err))

\* S25FL064L_LeavePowerDown up to its busy poll
LeavePowerDownSend(hh, w) ==
    Let(S25FL064L_Command(hh, w, << S25FL064L_CMD_RES >>, FALSE, 0), LAMBDA r :
        Ret(hh, r.w, r.err))

\* a faulty variant of LeavePowerDownDone: the flag is cleared whatever the
\* busy poll returned
LeavePowerDownDoneAlways(hh, b) ==
    Ret([hh EXCEPT !.isPowerDown = FALSE], b.w, b.err)

\* S25FL064L_LeavePowerDown once its busy poll has returned b
LeavePowerDownDone(hh, b) ==
    IF b.err # S25FL064_NO_ERROR
    THEN Ret(hh, b.w, b.err)
    ELSE Ret([hh EXCEPT !.isPowerDown = FALSE], b.w, b.err)

\* S25FL064L_LeavePowerDown
S25FL064L_LeavePowerDown(hh, w) ==
    Let(LeavePowerDownSend(hh, w), LAMBDA r :
    IF r.err # S25FL064_NO_ERROR
    THEN r
    ELSE Let(S25FL064L_WaitBusy(hh, r.w), LAMBDA b : LeavePowerDownDone(hh, b)))

\* S25FL064L_EraseSector up to its busy poll
EraseSectorSend(hh, w, Address) ==
    Let(S25FL064L_Command(hh, w, << S25FL064L_CMD_WREN >>, FALSE, 0), LAMBDA r :
    IF r.err # S25FL064_NO_ERROR
    THEN Ret(hh, r.w, r.err)
    ELSE Let(P_CS(r.w, TRUE), LAMBDA w1 :
         Let(P_RW(w1, << S25FL064L_CMD_SE >> \o AddrBytes(Address), -1, 0), LAMBDA x :
         Ret(hh, P_CS(x.w, FALSE), x.err))))

\* S25FL064L_EraseSector
S25FL064L_EraseSector(hh, w, Address) ==
    Let(EraseSectorSend(hh, w, Address), LAMBDA x :
    IF x.err # S25FL064_NO_ERROR
    THEN x
    ELSE Let(S25FL064L_WaitBusy(hh, x.w), LAMBDA b : Ret(hh, b.w, b.err)))

\* a faulty variant of S25FL064L_EraseChip: the write enable is left out
EraseChipNoWren(hh, w) ==
    Let(S25FL064L_Command(hh, w, << S25FL064L_CMD_CE >>, FALSE, 0), LAMBDA x :
    IF x.err # S25FL064_NO_ERROR
    THEN Ret(hh, x.w, x.err)
    ELSE Let(S25FL064L_WaitBusy(hh, x.w), LAMBDA b : Ret(hh, b.w, b.err)))

\* S25FL064L_EraseChip up to its busy poll
EraseChipSend(hh, w) ==
    Let(S25FL064L_Command(hh, w, << S25FL064L_CMD_WREN >>, FALSE, 0), LAMBDA r :
    IF r.err # S25FL064_NO_ERROR
    THEN Ret(hh, r.w, r.err)
    ELSE Let(S25FL064L_Command(hh, r.w, << S25FL064L_CMD_CE >>, FALSE, 0), LAMBDA x :
         Ret(hh, x.w, x.err)))

\* S25FL064L_EraseChip
S25FL064L_EraseChip(hh, w) ==
    Let(EraseChipSend(hh, w), LAMBDA x :
    IF x.err # S25FL064_NO_ERROR
    THEN x
    ELSE Let(S25FL064L_WaitBusy(hh, x.w), LAMBDA b : Ret(hh, b.w, b.err)))

\* S25FL064L_ReadID
S25FL064L_ReadID(hh, w) ==
    Let(S25FL064L_Command(hh, w, << S25FL064L_CMD_RDID >>, TRUE, 4), LAMBDA r :
    IF r.err # S25FL064_NO_ERROR
    THEN Ret(hh, r.w, r.err)
    ELSE Ret([hh EXCEPT !.MID = r.rx[2],
                        !.DID = ((r.rx[3] * 256) % 65536) + r.rx[4]],
             r.w, r.err))

\* a faulty variant of S25FL064L_ReadUID: the bytes of a failed exchange are
\* stored in the handle
ReadUIDStoreFirst(hh, w) ==
    IF ~hh.p_RW \/ ~hh.p_CS
    THEN Ret(hh, w, S25FL064_INVALID_PARAM)
    ELSE Let(P_CS(w, TRUE), LAMBDA w1 :
         Let(P_RW(w1, << S25FL064L_CMD_RUID >>, -1, 5), LAMBDA a :
         IF a.err # S25FL064_NO_ERROR
         THEN Ret(hh, P_CS(a.w, FALSE), a.err)
         ELSE Let(P_RW(a.w, << >>, -1, 8), LAMBDA b :
              Ret([hh EXCEPT !.UID = b.rx], P_CS(b.w, FALSE), b.err))))

\* S25FL064L_ReadUID
S25FL064L_ReadUID(hh, w) ==
    IF ~hh.p_RW \/ ~hh.p_CS
    THEN Ret(hh, w, S25FL064_INVALID_PARAM)
    ELSE Let(P_CS(w, TRUE), LAMBDA w1 :
         Let(P_RW(w1, << S25FL064L_CMD_RUID >>, -1, 5), LAMBDA a :
         IF a.err # S25FL064_NO_ERROR
         THEN Ret(hh, P_CS(a.w, FALSE), a.err)
         ELSE Let(P_RW(a.w, << >>, -1, 8), LAMBDA b :
              IF b.err # S25FL064_NO_ERROR
              THEN Ret(hh, P_CS(b.w, FALSE), b.err)
              ELSE Ret([hh EXCEPT !.UID = b.rx], P_CS(b.w, FALSE), b.err))))

\* S25FL064L_ReadJEDEC (the table goes to the static Params, which nothing reads)
S25FL064L_ReadJEDEC(hh, w) ==
    IF ~hh.p_RW \/ ~hh.p_CS
    THEN Ret(hh, w, S25FL064_INVALID_PARAM)
    ELSE Let(P_CS(w, TRUE), LAMBDA w1 :
         Let(P_RW(w1, << S25FL064L_CMD_RSFDP, 0, 0, 0, 0 >>, -1, 5), LAMBDA a :
         IF a.err # S25FL064_NO_ERROR
         THEN Ret(hh, P_CS(a.w, FALSE), a.err)
         ELSE Let(P_RW(a.w, << >>, -1, SizeofParams), LAMBDA b :
              Ret(hh, P_CS(b.w, FALSE), b.err))))

\* Error = ReadID(..) || ReadUID(..) || ReadJEDEC(..): the calls stop at the
\* first that fails, and the value is that of the C operator ||, 0 or 1
\* a faulty variant of ReadDeviceInformations: the three reads are all made
\* and their results combined
ReadDeviceInformationsAll(hh, w) ==
    Let(S25FL064L_ReadID(hh, w), LAMBDA a :
    Let(S25FL064L_ReadUID(a.h, a.w), LAMBDA b :
    Let(S25FL064L_ReadJEDEC(b.h, b.w), LAMBDA c :
        Ret(c.h, c.w, IF a.err # 0 \/ b.err # 0 \/ c.err # 0 THEN 1 ELSE 0))))

ReadDeviceInformations(hh, w) ==
    Let(S25FL064L_ReadID(hh, w), LAMBDA a :
    IF a.err # S25FL064_NO_ERROR THEN Ret(a.h, a.w, 1)
    ELSE Let(S25FL064L_ReadUID(a.h, a.w), LAMBDA b :
         IF b.err # S25FL064_NO_ERROR THEN Ret(b.h, b.w, 1)
         ELSE Let(S25FL064L_ReadJEDEC(b.h, b.w), LAMBDA c :
              Ret(c.h, c.w, IF c.err # S25FL064_NO_ERROR THEN 1 ELSE 0))))

\* the assignments of S25FL064L_Init once every step has succeeded; cr2 is
\* Rx_Buffer[1] of the configuration register 2 read
InitFinish(hh, cr2) ==
    [hh EXCEPT !.isShortAddress = IF Bit(cr2, S25FL064L_BIT_ADDR_LENGTH)
                                  THEN FALSE ELSE FALSE,
               !.Impedance = (cr2 \div 32) % 4,
               !.isQPI = ((cr2 \div 8) % 2 = 1),
               !.BlockSize = S25FL064L_SECTOR_SIZE,
               !.Blocks = S25FL064L_SECTOR_COUNT,
               !.isInitialized = TRUE,
               !.isPowerDown = FALSE,
               !.isWriteProtect = FALSE]

\* a faulty variant of InitStart: the geometry is set before the first step
InitStartGeometry(hh) ==
    [hh EXCEPT !.isInitialized = FALSE,
               !.BlockSize = S25FL064L_SECTOR_SIZE,
               !.Blocks = S25FL064L_SECTOR_COUNT]

\* a faulty variant of InitStart: the flag is not cleared
InitStartKeep(hh) == hh

\* the first assignment of S25FL064L_Init
InitStart(hh) == [hh EXCEPT !.isInitialized = FALSE]

\* S25FL064L_Init
S25FL064L_Init(hh, w) ==
    Let(InitStart(hh), LAMBDA h0 :
    Let(S25FL064L_LeavePowerDown(h0, w), LAMBDA a :
    IF a.err # S25FL064_NO_ERROR THEN a
    ELSE Let(S25FL064L_Reset(a.h, a.w), LAMBDA b :
    IF b.err # S25FL064_NO_ERROR THEN b
    ELSE Let(ReadDeviceInformations(b.h, b.w), LAMBDA c :
    IF c.err # S25FL064_NO_ERROR THEN c
    ELSE Let(S25FL064L_Command(c.h, c.w, << S25FL064L_CMD_RDCR2 >>, TRUE, 2), LAMBDA d :
    IF d.err # S25FL064_NO_ERROR THEN Ret(c.h, d.w, d.err)
    ELSE Ret(InitFinish(c.h, d.rx[2]), d.w, d.err))))))

\* a faulty variant of ErrorBits: the two flags change places
ErrorBitsSwapped(status) ==
    (IF Bit(status, 6) THEN 1 ELSE 0) + (IF Bit(status, 5) THEN 2 ELSE 0)

\* *p_Error = (Rx_Buffer[1] & 0x60) >> 0x05
ErrorBits(status) == BitAnd(status, 96) \div 32

\* S25FL064L_GetError.  bits: the value stored through p_Error, Indeterminate
\* when nothing was stored.
S25FL064L_GetError(hh, w) ==
    Let(S25FL064L_Command(hh, w, << S25FL064L_CMD_RDSR2 >>, TRUE, 2), LAMBDA r :
    IF r.err # S25FL064_NO_ERROR
    THEN [h |-> hh, w |-> r.w, err |-> r.err, bits |-> Indeterminate]
    ELSE Let(S25FL064L_Command(hh, r.w, << S25FL064L_CMD_CLSR >>, FALSE, 0), LAMBDA x :
         [h |-> hh, w |-> x.w, err |-> x.err, bits |-> ErrorBits(r.rx[2])]))

\* the result of calling a function pointer that is NULL
NullCall == -2

\* a faulty variant of WriteableCheck: the latch is not looked at
WriteableAlways(status) == TRUE

\* if(!(Rx_Buffer[1] & (0x01 << S25FL064L_BIT_WEL))): the memory is writeable
WriteableCheck(status) == Bit(status, S25FL064L_BIT_WEL)

\* where the payload of the last, partial page starts in the caller's buffer:
\* p_RW(p_Buffer, RemainingBytes, NULL, 0) sends from p_Buffer, not from
\* p_Buffer_Temp, whatever the number of pages sent before
PartialPageSource(bufOff) == 0

\* a faulty variant of SendFullPage: the page is sent in one exchange
SendFullPageAtOnce(w, buf, off) ==
    Let(P_RW(w, BufBytes(buf.pat, buf.base, off, S25FL064L_PAGE_SIZE), off, 0),
        LAMBDA d : [w |-> d.w, err |-> IF d.err # S25FL064_NO_ERROR THEN 1 ELSE 0])

\* Error = p_RW(p_Buffer_Temp, 255, ..) || p_RW(p_Buffer_Temp + 255, 1, ..):
\* the second exchange is made only if the first succeeds; the value is that
\* of the C operator ||, 0 or 1
SendFullPage(w, buf, off) ==
    Let(P_RW(w, BufBytes(buf.pat, buf.base, off, 255), off, 0), LAMBDA d1 :
    IF d1.err # S25FL064_NO_ERROR THEN [w |-> d1.w, err |-> 1]
    ELSE Let(P_RW(d1.w, BufBytes(buf.pat, buf.base, off + 255, 1), off + 255, 0),
             LAMBDA d2 :
             [w |-> d2.w, err |-> IF d2.err # S25FL064_NO_ERROR THEN 1 ELSE 0]))

\* the result of one pass of the do-while loop of S25FL064L_Write: again
\* tells whether the loop goes on, err is the value returned when it does not
Pass(w, err, st, again) == [w |-> w, err |-> err, st |-> st, again |-> again]

\* One pass of the do-while loop of S25FL064L_Write up to its busy poll: the
\* write enable, the status check, the page program frame and the payload.
\* st: RemainingBytes, MemoryAddress, the offset of p_Buffer_Temp in the
\* caller's buffer and Tx_Buffer.  buf names the caller's buffer.
PageSend(hh, w, buf, st) ==
    Let(S25FL064L_Command(hh, w, << S25FL064L_CMD_WREN >>, FALSE, 0), LAMBDA a :
    IF a.err # S25FL064_NO_ERROR THEN [w |-> a.w, err |-> a.err]
    ELSE
    Let(S25FL064L_Command(hh, a.w, << S25FL064L_CMD_RDSR1 >> \o SubSeq(st.tx, 2, 5),
                          TRUE, 2), LAMBDA b :
    IF b.err # S25FL064_NO_ERROR THEN [w |-> b.w, err |-> b.err]
    ELSE IF ~WriteableCheck(b.rx[2]) THEN [w |-> b.w, err |-> S25FL064_WRITE_PROTECTED]
    ELSE
    Let(P_CS(b.w, TRUE), LAMBDA w1 :
    Let(P_RW(w1, << S25FL064L_CMD_4PP >> \o AddrBytes(st.addr), -1, 0), LAMBDA c :
    IF c.err # S25FL064_NO_ERROR THEN [w |-> P_CS(c.w, FALSE), err |-> c.err]
    ELSE IF st.rem >= S25FL064L_PAGE_SIZE
    THEN \* at least one page to transmit: 255 bytes, then the last byte
         Let(SendFullPage(c.w, buf, st.off), LAMBDA d :
             [w |-> P_CS(d.w, FALSE), err |-> d.err])
    ELSE \* only one page to transmit
         Let(P_RW(c.w, BufBytes(buf.pat, buf.base, PartialPageSource(st.off), st.rem),
                  PartialPageSource(st.off), 0), LAMBDA d :
             [w |-> P_CS(d.w, FALSE), err |-> d.err])))))

\* the rest of the pass once its busy poll has returned e: the loop variables
\* advance by a page, or by what remained of the last one
PageDone(e, st) ==
    IF e.err # S25FL064_NO_ERROR THEN Pass(P_CS(e.w, FALSE), e.err, st, FALSE)
    ELSE IF st.rem >= S25FL064L_PAGE_SIZE
    THEN Pass(P_CS(e.w, FALSE), S25FL064_NO_ERROR,
              [rem |-> st.rem - S25FL064L_PAGE_SIZE,
               addr |-> st.addr + S25FL064L_PAGE_SIZE,
               off |-> st.off + S25FL064L_PAGE_SIZE,
               tx |-> << S25FL064L_CMD_4PP >> \o AddrBytes(st.addr)],
              st.rem - S25FL064L_PAGE_SIZE > 0)
    ELSE Pass(P_CS(e.w, FALSE), S25FL064_NO_ERROR,
              [st EXCEPT !.rem = 0,
                         !.tx = << S25FL064L_CMD_4PP >> \o AddrBytes(st.addr)],
              FALSE)

\* One pass of the do-while loop of S25FL064L_Write
WritePass(hh, w, buf, st) ==
    Let(PageSend(hh, w, buf, st), LAMBDA s :
    IF s.err # S25FL064_NO_ERROR THEN Pass(s.w, s.err, st, FALSE)
    ELSE Let(S25FL064L_WaitBusy(hh, s.w), LAMBDA e : PageDone(e, st)))

\* do { ... } while(RemainingBytes > 0)
RECURSIVE WriteLoop(_, _, _, _)
WriteLoop(hh, w, buf, st) ==
    Let(WritePass(hh, w, buf, st), LAMBDA p :
    IF p.again THEN WriteLoop(hh, p.w, buf, p.st) ELSE Ret(hh, p.w, p.err))

\* a faulty variant of WriteStart: the first page is framed with address 0
WriteStartAtZero(Address, Length) ==
    [rem |-> Length, addr |-> 0, off |-> 0,
     tx |-> << Indeterminate, Indeterminate, Indeterminate,
               Indeterminate, Indeterminate >>]

\* the loop variables of S25FL064L_Write before the first pass
WriteStart(Address, Length) ==
    [rem |-> Length, addr |-> Address, off |-> 0,
     tx |-> << Indeterminate, Indeterminate, Indeterminate,
               Indeterminate, Indeterminate >>]

\* S25FL064L_Write.  buf is the caller's buffer; buf.null: p_Buffer is NULL.
S25FL064L_Write(hh, w, Address, buf, Length) ==
    IF buf.null
    THEN Ret(hh, w, S25FL064_INVALID_PARAM)
    ELSE Let(WriteLoop(hh, w, buf, WriteStart(Address, Length)), LAMBDA r :
         IF r.err # S25FL064_NO_ERROR THEN r
         ELSE Let(S25FL064L_WaitBusy(hh, r.w), LAMBDA e : Ret(hh, e.w, e.err)))

\* a faulty variant of ReadLoop: each chunk is stored at the start of the
\* buffer
RECURSIVE ReadLoopRestart(_, _, _)
ReadLoopRestart(w, rem, got) ==
    Let(P_RW(w, << >>, -1, IF rem > 255 THEN 255 ELSE rem), LAMBDA r :
    IF r.err # S25FL064_NO_ERROR
    THEN [w |-> P_CS(r.w, FALSE), err |-> r.err, buf |-> got]
    ELSE IF rem - Len(r.rx) > 0
         THEN Let(r.rx \o got, LAMBDA g : ReadLoopRestart(r.w, rem - Len(r.rx), g))
         ELSE [w |-> P_CS(r.w, FALSE), err |-> r.err, buf |-> r.rx \o got])

\* The do-while loop of S25FL064L_Read: rem is RemainingBytes, got the bytes
\* stored through p_Buffer_Temp so far.
RECURSIVE ReadLoop(_, _, _)
ReadLoop(w, rem, got) ==
    Let(P_RW(w, << >>, -1, IF rem > 255 THEN 255 ELSE rem), LAMBDA r :
    IF r.err # S25FL064_NO_ERROR
    THEN [w |-> P_CS(r.w, FALSE), err |-> r.err, buf |-> got]
    ELSE IF rem - Len(r.rx) > 0
         THEN Let(got \o r.rx, LAMBDA g : ReadLoop(r.w, rem - Len(r.rx), g))
         ELSE [w |-> P_CS(r.w, FALSE), err |-> r.err, buf |-> got \o r.rx])

\* S25FL064L_Read.  bufNull: p_Buffer is NULL.  buf: the bytes received.
S25FL064L_Read(hh, w, Start, bufNull, Length) ==
    IF bufNull
    THEN [h |-> hh, w |-> w, err |-> S25FL064_INVALID_PARAM, buf |-> << >>]
    ELSE IF ~hh.p_CS \/ ~hh.p_RW
    THEN [h |-> hh, w |-> w, err |-> NullCall, buf |-> << >>]
    ELSE Let(P_CS(w, TRUE), LAMBDA w1 :
         Let(P_RW(w1, << S25FL064L_CMD_4READ >> \o AddrBytes(Start), -1, 0), LAMBDA a :
         IF a.err # S25FL064_NO_ERROR
         THEN [h |-> hh, w |-> P_CS(a.w, FALSE), err |-> a.err, buf |-> << >>]
         ELSE Let(ReadLoop(a.w, Length, << >>), LAMBDA r :
              [h |-> hh, w |-> r.w, err |-> r.err, buf |-> r.buf])))

(***************************************************************************)
(* The block device adapter (filesystem.c).  block_size is the             *)
(* .block_size of FileSystemConfig.                                        *)
(***************************************************************************)
BlockAddress(Block, Offset) == (Block * S25FL064L_SECTOR_SIZE) + Offset

\* a faulty variant of AdapterResult: the driver's error code is passed on
AdapterResultRaw(err) == err

\* the value the adapter returns for the driver's error code
AdapterResult(err) == IF err # S25FL064_NO_ERROR THEN -1 ELSE 0

Flash_Read(hh, w, Block, Offset, Size) ==
    Let(S25FL064L_Read(hh, w, BlockAddress(Block, Offset), FALSE, Size), LAMBDA r :
        [r EXCEPT !.err = AdapterResult(r.err)])

Flash_Write(hh, w, Block, Offset, buf, Size) ==
    Let(S25FL064L_Write(hh, w, BlockAddress(Block, Offset), buf, Size), LAMBDA r :
        [r EXCEPT !.err = AdapterResult(r.err)])

Flash_Erase(hh, w, Block) ==
    Let(S25FL064L_EraseSector(hh, w, BlockAddress(Block, 0)), LAMBDA r :
        [r EXCEPT !.err = AdapterResult(r.err)])

(***************************************************************************)
(* FileSystem_Init.  The results are values of ret_code_t.                 *)
(***************************************************************************)
NRF_SUCCESS == 0
NRF_ERROR_NO_MEM == 4

\* FileSystem_Init drives FLASH_SS high and FLASH_RESET low: chip select is
\* released and the chip is reset
PinsAtInit(w) ==
    [w EXCEPT !.cs = FALSE, !.fr = NoFrame,
              !.c = [w.c EXCEPT !.wip = 0, !.wel = FALSE, !.dpd = FALSE,
                                !.sr2 = w.c.sr2 - BitAnd(w.c.sr2, ChipPErr + ChipEErr)]]

\* the function pointers FileSystem_Init stores in Flash
FlashPointers(hh) ==
    [hh EXCEPT !.p_Reset = TRUE, !.p_CS = TRUE, !.p_RW = TRUE, !.p_Busy = TRUE]

\* a faulty variant of FileSystem_Init: the device ID is not compared
FileSystemInitAnyDevice(hh, w) ==
    Let(S25FL064L_Init(FlashPointers(hh), PinsAtInit(w)), LAMBDA r :
        Ret(r.h, r.w,
            IF r.err # S25FL064_NO_ERROR \/ ~r.h.isInitialized
            THEN NRF_ERROR_NO_MEM ELSE NRF_SUCCESS))

FileSystem_Init(hh, w) ==
    Let(S25FL064L_Init(FlashPointers(hh), PinsAtInit(w)), LAMBDA r :
        Ret(r.h, r.w,
            IF \/ r.err # S25FL064_NO_ERROR
               \/ r.h.DID # S25FL064L_DEVICE_ID
               \/ ~r.h.isInitialized
            THEN NRF_ERROR_NO_MEM ELSE NRF_SUCCESS))

(***************************************************************************)
(* FileSystem_WriteTestFile.  LittleFS is not part of the model: lfs holds *)
(* what its functions returned to the call, mount, open and close the      *)
(* results of lfs_mount, lfs_file_open and lfs_file_close, BytesIn and     *)
(* BytesOut those of lfs_file_write and lfs_file_read, and Test_In the     *)
(* bytes lfs_file_read stored.                                             *)
(***************************************************************************)
\* char Test_Out[] = "Hello, World!";
Test_Out == << 72, 101, 108, 108, 111, 44, 32, 87, 111, 114, 108, 100, 33, 0 >>

\* FileError is assigned the results of lfs_mount, lfs_file_open and
\* lfs_file_close in turn, and read after the last
FileSystem_WriteTestFile(lfs) ==
    Let(lfs.mount, LAMBDA FileError1 :
    Let(lfs.open, LAMBDA FileError2 :
    Let(lfs.close, LAMBDA FileError :
        IF (FileError < 0) \/ (lfs.BytesIn # lfs.BytesOut)
        THEN NRF_ERROR_NO_MEM ELSE NRF_SUCCESS)))

(***************************************************************************)
(* The environment's choices for one call.                                 *)
(***************************************************************************)
\* the error codes a failing transport returns: the one the transport of
\* filesystem.c has, and that one with another value of s25fl064_error_t
FailCodes == {S25FL064_INVALID_PARAM}
AnyFailCodes == {S25FL064_INVALID_PARAM, S25FL064_NOT_INITIALIZED}
NoFailure == {}

NoFault(b) == [busy |-> b, welFrom |-> 0, failAt |-> 0, code |-> 0]

\* nothing goes wrong; a program or erase takes 0..MaxBusy polls
EnvNormal == {NoFault(b) : b \in 0..MaxBusy}

\* the chip does not set its latch from the k-th write enable on, in a call
\* that sends up to n write enables
EnvWel(n) ==
    {[busy |-> 0, welFrom |-> k, failAt |-> 0, code |-> 0] : k \in 1..Min(n, MaxWel)}

\* the transport fails at one of the first n exchanges of the call with one
\* of the error codes
EnvFail(n, codes) ==
    {[busy |-> MaxBusy, welFrom |-> 0, failAt |-> k, code |-> e] :
        k \in 1..Min(n, MaxFail), e \in codes}

(***************************************************************************)
(* The state machine.  One step is one call of a public function of the    *)
(* driver or of the adapter, from its first statement to its return.       *)
(***************************************************************************)
NoBuf == [pat |-> 0, base |-> 0, null |-> FALSE]
Buf(pat, base) == [pat |-> pat, base |-> base, null |-> FALSE]

\* function, arguments and result of a call
Brief(l) == [op |-> l.op, addr |-> l.addr, len |-> l.len, ret |-> l.ret]

\* blk, boff: the block and the offset an adapter function was called with
NoCall ==
    [op |-> "none", via |-> "none", addr |-> 0, len |-> 0, buf |-> NoBuf,
     ret |-> 0, log |-> << >>, data |-> << >>, h0 |-> << >>, c0 |-> << >>,
     cs0 |-> FALSE, env |-> NoFault(0), blk |-> 0, boff |-> 0,
     b |-> [op |-> "none", addr |-> 0, len |-> 0, ret |-> 0]]

\* no call is in progress.  phase: "idle", "called" (nothing sent yet) or
\* "poll" (in S25FL064L_WaitBusy); where: what follows the poll; st: the loop
\* variables of S25FL064L_Write; polls: the status reads that saw the chip
\* busy, counted up to MaxPolls; ret: what the last call returned
Idle ==
    [phase |-> "idle", op |-> "none", addr |-> 0, len |-> 0, buf |-> NoBuf,
     env |-> NoFault(0), where |-> "none", st |-> << >>, polls |-> 0, ret |-> 0]

\* what is kept of a call once the next call has been made; b is the call
\* before it, mem0 the chip memory it started from
Summary(l) == [op |-> l.op, via |-> l.via, addr |-> l.addr, len |-> l.len,
               buf |-> l.buf, ret |-> l.ret, env |-> l.env, b |-> l.b,
               mem0 |-> IF l.op = "none" THEN EmptyMem ELSE l.c0.mem]

\* the static handle Flash after FileSystem_Init has set its function
\* pointers and before S25FL064L_Init is called
FreshHandle ==
    [p_Reset |-> TRUE, p_CS |-> TRUE, p_RW |-> TRUE, p_Busy |-> TRUE,
     isInitialized |-> FALSE, isPowerDown |-> FALSE, isWriteProtect |-> FALSE,
     isShortAddress |-> FALSE, isQPI |-> FALSE, MID |-> 0, DID |-> 0,
     UID |-> Zeros(8), BlockSize |-> 0, Blocks |-> 0, Impedance |-> 0]

\* the chips of the model, erased and idle
FreshChips ==
    [mem : {EmptyMem}, wel : {FALSE}, wip : {0}, dpd : {FALSE},
     did : ChipDID, cr2 : ChipCR2, sr2 : {0}]

Init ==
    /\ h = FreshHandle
    /\ chip \in FreshChips
    /\ cs = FALSE
    /\ last = NoCall
    /\ prev = Summary(NoCall)
    /\ life = "none"
    /\ nops = 0
    /\ call = Idle

\* every exchange of the log succeeded
NoExchangeFailed(log) ==
    \A i \in 1..Len(log) : log[i].k = "rw" => log[i].err = S25FL064_NO_ERROR

\* the command frames of a log: the first exchange after chip select fell
IsFrame(log, i) ==
    /\ log[i].k = "rw"
    /\ i > 1
    /\ log[i - 1].k = "cs"
    /\ log[i - 1].sel

FrameIs(log, i, opcode) ==
    IsFrame(log, i) /\ log[i].len > 0 /\ log[i].tx[1] = opcode

HasFrame(log, opcode) == \E i \in 1..Len(log) : FrameIs(log, i, opcode)

\* the call went through all the steps of S25FL064L_Init and none failed
InitSucceeded(log) ==
    /\ NoExchangeFailed(log)
    /\ HasFrame(log, S25FL064L_CMD_RES)
    /\ \E i \in 1..Len(log) : log[i].k = "reset"
    /\ HasFrame(log, S25FL064L_CMD_RDID)
    /\ HasFrame(log, S25FL064L_CMD_RUID)
    /\ HasFrame(log, S25FL064L_CMD_RSFDP)
    /\ HasFrame(log, S25FL064L_CMD_RDCR2)

\* the state after a call: r is what the function returned
CalledWith(op, via, blk, boff, addr, len, buf, r, data, env, lifeNow) ==
    /\ h' = r.h
    /\ chip' = r.w.c
    /\ cs' = r.w.cs
    /\ last' = [op |-> op, via |-> via, addr |-> addr, len |-> len, buf |-> buf,
                ret |-> r.err, log |-> r.w.log, data |-> data, h0 |-> h,
                c0 |-> chip, cs0 |-> cs, env |-> env, blk |-> blk, boff |-> boff,
                b |-> Brief(last)]
    /\ prev' = Summary(last)
    /\ life' = lifeNow
    /\ nops' = nops + 1
    /\ call' = call

Called(op, via, addr, len, buf, r, data, env, lifeNow) ==
    CalledWith(op, via, 0, 0, addr, len, buf, r, data, env, lifeNow)

\* the number of exchanges of a call in which nothing fails
Exchanges(r) == r.w.n

\* In the actions below lim bounds the number of calls, envs are the
\* environments without transport failure the call may meet, and failing
\* are the error codes the transport may fail with.
Failing(failing, n) == EnvFail(n, failing)

DoInit(lim, failing) ==
    /\ nops < lim
    /\ \E n \in {Exchanges(S25FL064L_Init(h, World(chip, cs, NoFault(MaxBusy))))} :
       \E env \in {NoFault(0)} \cup Failing(failing, n) :
       \E r \in {S25FL064L_Init(h, World(chip, cs, env))} :
          Called("Init", "driver", 0, 0, NoBuf, r, << >>, env,
                 IF InitSucceeded(r.w.log) THEN "initOK" ELSE "initFail")

DoReset(lim) ==
    /\ nops < lim
    /\ \E r \in {S25FL064L_Reset(h, World(chip, cs, NoFault(0)))} :
          Called("Reset", "driver", 0, 0, NoBuf, r, << >>, NoFault(0),
                 IF r.err = S25FL064_NO_ERROR THEN "reset" ELSE life)

DoEnterPowerDown(lim, failing) ==
    /\ nops < lim
    /\ \E env \in {NoFault(0)} \cup Failing(failing, 1) :
       \E r \in {S25FL064L_EnterPowerDown(h, World(chip, cs, env))} :
          Called("EnterPowerDown", "driver", 0, 0, NoBuf, r, << >>, env, life)

DoLeavePowerDown(lim, envs, failing) ==
    /\ nops < lim
    /\ \E n \in {Exchanges(S25FL064L_LeavePowerDown(h, World(chip, cs,
                                                             NoFault(MaxBusy))))} :
       \E env \in envs \cup Failing(failing, n) :
       \E r \in {S25FL064L_LeavePowerDown(h, World(chip, cs, env))} :
          Called("LeavePowerDown", "driver", 0, 0, NoBuf, r, << >>, env, life)

DoGetError(lim, failing) ==
    /\ nops < lim
    /\ \E env \in {NoFault(0)} \cup Failing(failing, 2) :
       \E r \in {S25FL064L_GetError(h, World(chip, cs, env))} :
          Called("GetError", "driver", 0, 0, NoBuf, r, << r.bits >>, env, life)

DoEraseSector(lim, envs, failing, addrs) ==
    /\ nops < lim
    /\ \E Address \in addrs :
       \E n \in {Exchanges(S25FL064L_EraseSector(h, World(chip, cs, NoFault(MaxBusy)),
                                                  Address))} :
       \E env \in envs \cup Failing(failing, n) :
       \E r \in {S25FL064L_EraseSector(h, World(chip, cs, env), Address)} :
          Called("EraseSector", "driver", Address, 0, NoBuf, r, << >>, env, life)

DoEraseChip(lim, envs, failing) ==
    /\ nops < lim
    /\ \E n \in {Exchanges(S25FL064L_EraseChip(h, World(chip, cs, NoFault(MaxBusy))))} :
       \E env \in envs \cup Failing(failing, n) :
       \E r \in {S25FL064L_EraseChip(h, World(chip, cs, env))} :
          Called("EraseChip", "driver", 0, 0, NoBuf, r, << >>, env, life)

DoWrite(lim, envs, failing, addrs, lens, bufs) ==
    /\ nops < lim
    /\ \E Address \in addrs, Length \in lens, buf \in bufs :
       \E n \in {Exchanges(S25FL064L_Write(h, World(chip, cs, NoFault(MaxBusy)),
                                            Address, buf, Length))} :
       \E env \in envs \cup Failing(failing, n) :
       \E r \in {S25FL064L_Write(h, World(chip, cs, env), Address, buf, Length)} :
          Called("Write", "driver", Address, Length, buf, r, << >>, env, life)

DoRead(lim, failing, addrs, lens) ==
    /\ nops < lim
    /\ \E Start \in addrs, Length \in lens :
       \E n \in {Exchanges(S25FL064L_Read(h, World(chip, cs, NoFault(0)),
                                           Start, FALSE, Length))} :
       \E env \in {NoFault(0)} \cup Failing(failing, n) :
       \E r \in {S25FL064L_Read(h, World(chip, cs, env), Start, FALSE, Length)} :
          Called("Read", "driver", Start, Length, NoBuf, r, r.buf, env, life)

\* a call of S25FL064L_Read with p_CS or p_RW absent.  The call of the NULL
\* pointer is undefined: it faults and nothing is returned (NullCall), or
\* it comes back and the function returns one of its results.
DoReadUndefined(lim, addrs, lens) ==
    /\ nops < lim
    /\ \E Start \in addrs, Length \in lens :
       \E r \in {S25FL064L_Read(h, World(chip, cs, NoFault(0)), Start, FALSE, Length)} :
          /\ r.err = NullCall
          /\ \E out \in {NullCall, S25FL064_NO_ERROR, S25FL064_INVALID_PARAM} :
                Called("Read", "driver", Start, Length, NoBuf,
                       [r EXCEPT !.err = out], r.buf, NoFault(0), life)

DoFileSystemInit(lim, failing) ==
    /\ nops < lim
    /\ \E n \in {Exchanges(FileSystem_Init(h, World(chip, cs, NoFault(MaxBusy))))} :
       \E env \in {NoFault(0)} \cup Failing(failing, n) :
       \E r \in {FileSystem_Init(h, World(chip, cs, env))} :
          Called("FileSystem_Init", "app", 0, 0, NoBuf, r, << >>, env,
                 IF InitSucceeded(r.w.log) THEN "initOK" ELSE "initFail")

\* a call of FileSystem_WriteTestFile; the results of LittleFS are 0 or a
\* negative error code, a number of bytes or a negative error code
DoWriteTestFile(lim) ==
    /\ nops < lim
    /\ \E lfs \in [mount : {0, -5}, open : {0, -2, -5}, close : {0, -5},
                    BytesIn : {Len(Test_Out), -28},
                    BytesOut : {Len(Test_Out), 0, -5},
                    Test_In : {Test_Out, [Test_Out EXCEPT ![1] = 74]}] :
          Called("WriteTestFile", "app", 0, Len(Test_Out), NoBuf,
                 Ret(h, World(chip, cs, NoFault(0)), FileSystem_WriteTestFile(lfs)),
                 lfs.Test_In, lfs, life)

\* the chip finishes the program or erase a call stopped polling for
ChipReady ==
    /\ chip.wip > 0
    /\ chip' = [chip EXCEPT !.wip = 0, !.wel = FALSE]
    /\ UNCHANGED <<h, cs, last, prev, life, nops, call>>

\* the calls LittleFS makes through FileSystemConfig; a range is an offset in
\* the block and a size
DoFlashRead(lim, envs, blocks, ranges) ==
    /\ nops < lim
    /\ \E Block \in blocks, rg \in ranges, env \in envs :
       \E r \in {Flash_Read(h, World(chip, cs, env), Block, rg[1], rg[2])} :
          CalledWith("Read", "adapter", Block, rg[1], BlockAddress(Block, rg[1]),
                     rg[2], NoBuf, r, r.buf, env, life)

DoFlashWrite(lim, envs, blocks, ranges, bufs) ==
    /\ nops < lim
    /\ \E Block \in blocks, rg \in ranges, buf \in bufs, env \in envs :
       \E r \in {Flash_Write(h, World(chip, cs, env), Block, rg[1], buf, rg[2])} :
          CalledWith("Write", "adapter", Block, rg[1], BlockAddress(Block, rg[1]),
                     rg[2], buf, r, << >>, env, life)

DoFlashErase(lim, envs, blocks) ==
    /\ nops < lim
    /\ \E Block \in blocks, env \in envs :
       \E r \in {Flash_Erase(h, World(chip, cs, env), Block)} :
          CalledWith("EraseSector", "adapter", Block, 0, BlockAddress(Block, 0), 0,
                     NoBuf, r, << >>, env, life)

(***************************************************************************)
(* Spec: the driver's calls in an environment where the transport may fail *)
(* and the chip may refuse a write enable.                                 *)
(***************************************************************************)
FaultAddrs == {0}
FaultLens == {S25FL064L_PAGE_SIZE + 1}
FaultBufs == {Buf(1, 0)}
\* an erase sends one write enable, a write of FaultLens bytes two
EraseEnvs == EnvNormal \cup EnvWel(1)
WriteEnvs == EnvNormal \cup EnvWel(2)

Next ==
    \/ DoInit(MaxOps, NoFailure)
    \/ DoReset(MaxOps)
    \/ DoEraseSector(MaxOps, EraseEnvs, FailCodes, FaultAddrs)
    \/ DoEraseChip(MaxOps, EraseEnvs, FailCodes)
    \/ DoWrite(MaxOps, WriteEnvs, FailCodes, FaultAddrs, FaultLens, FaultBufs)
    \/ DoRead(MaxOps, FailCodes, FaultAddrs, {1})
    \/ ChipReady

Spec == Init /\ [][Next]_vars

(***************************************************************************)
(* SpecLife: the life cycle of the handle.  S25FL064L_Init may fail at any *)
(* of its exchanges.                                                       *)
(***************************************************************************)
NextLife ==
    \/ DoInit(MaxLifeOps, FailCodes)
    \/ DoReset(MaxLifeOps)
    \/ DoEnterPowerDown(MaxLifeOps, FailCodes)
    \/ DoLeavePowerDown(MaxLifeOps, EnvNormal, FailCodes)
    \/ DoRead(MaxLifeOps, NoFailure, {0}, {1})

SpecLife == Init /\ [][NextLife]_vars

(***************************************************************************)
(* SpecData: writes and reads of one byte, one page and one page plus one  *)
(* byte, with no failure.                                                  *)
(***************************************************************************)
NoFaultEnvs == {NoFault(MaxBusy)}
DataLens == {1, S25FL064L_PAGE_SIZE, S25FL064L_PAGE_SIZE + 1}
DataBufs == {Buf(1, 0), Buf(2, 0)}

NextData ==
    \/ DoWrite(MaxDataOps, NoFaultEnvs, NoFailure, {0}, DataLens, DataBufs)
    \/ DoRead(MaxDataOps, NoFailure, {0, S25FL064L_PAGE_SIZE}, {1, S25FL064L_PAGE_SIZE + 1})
    \/ DoEraseSector(MaxDataOps, NoFaultEnvs, NoFailure, {0})

SpecData == Init /\ [][NextData]_vars

(***************************************************************************)
(* SpecBlock: the block device LittleFS sees, after FileSystem_Init has    *)
(* initialized the driver.  Blocks are programmed whole, erased and read.  *)
(***************************************************************************)
InitBlock ==
    /\ chip \in FreshChips
    /\ h = S25FL064L_Init(FreshHandle, World(chip, FALSE, NoFault(0))).h
    /\ cs = FALSE
    /\ last = NoCall
    /\ prev = Summary(NoCall)
    /\ life = "initOK"
    /\ nops = 0
    /\ call = Idle

BlockSet == {0, 1}
BlockRanges ==
    { <<0, 1>>, <<S25FL064L_SECTOR_SIZE - 1, 1>>, <<0, S25FL064L_SECTOR_SIZE>> }

NextBlock ==
    \/ DoFlashWrite(MaxBlockOps, NoFaultEnvs, BlockSet,
                    { <<0, S25FL064L_SECTOR_SIZE>> }, {Buf(1, 0)})
    \/ DoFlashErase(MaxBlockOps, NoFaultEnvs \cup EnvWel(1), BlockSet)
    \/ DoFlashRead(MaxBlockOps, {NoFault(0)}, BlockSet, BlockRanges)

SpecBlock == InitBlock /\ [][NextBlock]_vars

(***************************************************************************)
(* SpecDevice: chips that answer with the expected device ID or another,   *)
(* with either value of the address-length bit of configuration register   *)
(* 2, and that latch program and erase errors.                             *)
(***************************************************************************)
DeviceChips ==
    [mem : {EmptyMem}, wel : {FALSE}, wip : {0}, dpd : {FALSE},
     did : {S25FL064L_DEVICE_ID, S25FL064L_DEVICE_ID - 1},
     cr2 : {c + a : c \in ChipCR2, a \in {0, 1}}, sr2 : {0}]

InitDevice ==
    /\ h = FreshHandle
    /\ chip \in DeviceChips
    /\ cs = FALSE
    /\ last = NoCall
    /\ prev = Summary(NoCall)
    /\ life = "none"
    /\ nops = 0
    /\ call = Idle

\* a program or an erase fails inside the chip, which latches the error
ChipLatchError ==
    /\ \E e \in {ChipPErr, ChipEErr} :
          /\ BitAnd(chip.sr2, e) = 0
          /\ chip' = [chip EXCEPT !.sr2 = chip.sr2 + e]
    /\ UNCHANGED <<h, cs, last, prev, life, nops, call>>

DeviceAddrs == {S25FL064L_SECTOR_SIZE + 2}

NextDevice ==
    \/ DoInit(MaxDevOps, NoFailure)
    \/ DoGetError(MaxDevOps, FailCodes)
    \/ ChipLatchError
    \/ DoEraseSector(MaxDevOps, {NoFault(0)}, NoFailure, DeviceAddrs)
    \/ DoWrite(MaxDevOps, {NoFault(0)}, NoFailure, DeviceAddrs, {1}, {Buf(1, 0)})
    \/ DoRead(MaxDevOps, NoFailure, DeviceAddrs, {1})

SpecDevice == InitDevice /\ [][NextDevice]_vars

(***************************************************************************)
(* SpecBusy: programs, erases and releases from power down that take up to *)
(* MaxPolls status reads, with and without the busy callback, on a chip    *)
(* that is awake or was sent to deep power down.                           *)
(***************************************************************************)
EnvPolls == {NoFault(b) : b \in 0..MaxPolls}

\* the handle and the chip after S25FL064L_EnterPowerDown
Parked(hh, c) ==
    Let(S25FL064L_EnterPowerDown(hh, World(c, FALSE, NoFault(0))), LAMBDA r :
        [h |-> r.h, c |-> r.w.c])

BusyStarts ==
    LET awake == {[h |-> [FreshHandle EXCEPT !.p_Busy = b], c |-> c] :
                     b \in BOOLEAN, c \in FreshChips}
    IN awake \cup {Parked(a.h, a.c) : a \in awake}

InitBusy ==
    /\ \E a \in BusyStarts : h = a.h /\ chip = a.c
    /\ cs = FALSE
    /\ last = NoCall
    /\ prev = Summary(NoCall)
    /\ life = "none"
    /\ nops = 0
    /\ call = Idle

NextBusy ==
    \/ DoEraseSector(MaxBusyOps, EnvPolls, FailCodes, FaultAddrs)
    \/ DoEraseChip(MaxBusyOps, EnvPolls, FailCodes)
    \/ DoWrite(MaxBusyOps, EnvPolls, FailCodes, FaultAddrs, FaultLens, FaultBufs)
    \/ DoEnterPowerDown(MaxBusyOps, NoFailure)
    \/ DoLeavePowerDown(MaxBusyOps, EnvPolls, FailCodes)

SpecBusy == InitBusy /\ [][NextBusy]_vars

(***************************************************************************)
(* SpecAdapter: the functions of FileSystemConfig called with offsets in   *)
(* the block, where the transport may fail and the chip may refuse a write *)
(* enable.                                                                 *)
(***************************************************************************)
AdapterRanges ==
    { <<0, LFS_BUFFER_SIZE>>, <<LFS_BUFFER_SIZE, LFS_BUFFER_SIZE>>,
      <<S25FL064L_SECTOR_SIZE - LFS_BUFFER_SIZE, LFS_BUFFER_SIZE>> }
AdapterBlocks == {0, 1, S25FL064L_SECTOR_COUNT - 1}
AdapterEnvs == {NoFault(0)} \cup EnvWel(1) \cup EnvFail(3, FailCodes)

NextAdapter ==
    \/ DoFlashRead(MaxAdapterOps, AdapterEnvs, AdapterBlocks, AdapterRanges)
    \/ DoFlashWrite(MaxAdapterOps, AdapterEnvs, AdapterBlocks, AdapterRanges, {Buf(1, 0)})
    \/ DoFlashErase(MaxAdapterOps, AdapterEnvs, AdapterBlocks)

SpecAdapter == InitBlock /\ [][NextAdapter]_vars

(***************************************************************************)
(* SpecHandle: the data operations on the handle FileSystem_Init has       *)
(* initialized, where the transport may fail and the chip may refuse a     *)
(* write enable.                                                           *)
(***************************************************************************)
NextHandle ==
    \/ DoRead(MaxHandleOps, FailCodes, {0}, {1})
    \/ DoWrite(MaxHandleOps, {NoFault(0)} \cup EnvWel(1), FailCodes, {0}, {1}, {Buf(1, 0)})
    \/ DoEraseSector(MaxHandleOps, {NoFault(0)}, FailCodes, {0})
    \/ DoEraseChip(MaxHandleOps, {NoFault(0)}, FailCodes)
    \/ DoGetError(MaxHandleOps, FailCodes)

SpecHandle == InitBlock /\ [][NextHandle]_vars

(***************************************************************************)
(* SpecFs: FileSystem_Init with the chips of DeviceChips, awake or in deep *)
(* power down, where the transport may fail.                               *)
(***************************************************************************)
NextFs ==
    \/ DoFileSystemInit(MaxFsOps, FailCodes)
    \/ DoEnterPowerDown(MaxFsOps, NoFailure)

SpecFs == InitDevice /\ [][NextFs]_vars

(***************************************************************************)
(* SpecRead: reads of one to three chunks, inside a sector and across the  *)
(* end of one, of memory that one or two pages were written to.            *)
(***************************************************************************)
NextRead ==
    \/ DoWrite(MaxReadOps, {NoFault(0)}, NoFailure,
               {0, S25FL064L_SECTOR_SIZE - S25FL064L_PAGE_SIZE, S25FL064L_SECTOR_SIZE},
               {1, S25FL064L_PAGE_SIZE, S25FL064L_PAGE_SIZE + 1}, {Buf(1, 0)})
    \/ DoRead(MaxReadOps, NoFailure, {0, S25FL064L_SECTOR_SIZE - 1},
              {1, 255, S25FL064L_PAGE_SIZE, 255 + S25FL064L_PAGE_SIZE})

SpecRead == InitBlock /\ [][NextRead]_vars

(***************************************************************************)
(* SpecMemTest: FileSystem_RawMemTest on the initialized handle, followed  *)
(* from one call of the driver to the next through the first               *)
(* MaxTestSectors passes of its sector loop.  The chip may refuse the      *)
(* write enable of a page, which then reads back erased.  In call, at is   *)
(* the next statement, Sector and Page are the loop variables, Page_Out is *)
(* the buffer written last and s0 the value of Sector when the last call   *)
(* of the driver was made.  One pattern stands for the random bytes of     *)
(* Page_Out.                                                               *)
(***************************************************************************)
MemTestAt(at, Sector, Page, out, s0, ret) ==
    [phase |-> "memtest", at |-> at, Sector |-> Sector, Page |-> Page,
     Page_Out |-> out, s0 |-> s0, ret |-> ret]

\* the state after a call the test made, with the test at its statement next
MemTestCalled(op, addr, len, buf, r, data, env, next) ==
    /\ h' = r.h
    /\ chip' = r.w.c
    /\ cs' = r.w.cs
    /\ last' = [op |-> op, via |-> "test", addr |-> addr, len |-> len, buf |-> buf,
                ret |-> r.err, log |-> r.w.log, data |-> data, h0 |-> h,
                c0 |-> chip, cs0 |-> cs, env |-> env, blk |-> 0, boff |-> 0,
                b |-> Brief(last)]
    /\ prev' = Summary(last)
    /\ call' = next
    /\ UNCHANGED <<life, nops>>

\* if(S25FL064L_EraseChip(&Flash)) return NRF_ERROR_NO_MEM;
MemTestStart ==
    /\ call = Idle
    /\ \E env \in {NoFault(0)} \cup EnvFail(1, FailCodes) :
       \E r \in {S25FL064L_EraseChip(h, World(chip, cs, env))} :
          MemTestCalled("EraseChip", 0, 0, NoBuf, r, << >>, env,
                        IF r.err # S25FL064_NO_ERROR
                        THEN MemTestAt("returned", 0, 0, NoBuf, 0, NRF_ERROR_NO_MEM)
                        ELSE MemTestAt("erase", 0, 0, NoBuf, 0, 0))

\* S25FL064L_EraseSector(&Flash, Sector);
MemTestErase ==
    /\ call.phase = "memtest"
    /\ call.at = "erase"
    /\ call.Sector < MaxTestSectors
    /\ \E r \in {S25FL064L_EraseSector(h, World(chip, cs, NoFault(0)), call.Sector)} :
          MemTestCalled("EraseSector", call.Sector, 0, NoBuf, r, << >>, NoFault(0),
                        MemTestAt("write", call.Sector, 0, NoBuf, call.Sector, 0))

\* S25FL064L_Write(&Flash, Page * S25FL064L_PAGE_SIZE, Page_Out, sizeof(Page_Out));
MemTestWrite ==
    /\ call.phase = "memtest"
    /\ call.at = "write"
    /\ \E env \in {NoFault(0)} \cup EnvWel(1) :
       \E r \in {S25FL064L_Write(h, World(chip, cs, env),
                                  call.Page * S25FL064L_PAGE_SIZE, Buf(1, 0),
                                  S25FL064L_PAGE_SIZE)} :
          MemTestCalled("Write", call.Page * S25FL064L_PAGE_SIZE, S25FL064L_PAGE_SIZE,
                        Buf(1, 0), r, << >>, env,
                        MemTestAt("read", call.Sector, call.Page, Buf(1, 0),
                                  call.Sector, 0))

\* S25FL064L_Read(&Flash, Page * S25FL064L_PAGE_SIZE, Page_In, sizeof(Page_In)),
\* the comparison of Page_In with Page_Out and the loop increments
MemTestRead ==
    /\ call.phase = "memtest"
    /\ call.at = "read"
    /\ \E r \in {S25FL064L_Read(h, World(chip, cs, NoFault(0)),
                                 call.Page * S25FL064L_PAGE_SIZE, FALSE,
                                 S25FL064L_PAGE_SIZE)} :
          MemTestCalled("Read", call.Page * S25FL064L_PAGE_SIZE, S25FL064L_PAGE_SIZE,
                        NoBuf, r, r.buf, NoFault(0),
                        IF r.buf # BufBytes(call.Page_Out.pat, call.Page_Out.base, 0,
                                            S25FL064L_PAGE_SIZE)
                        THEN MemTestAt("returned", call.Sector, call.Page,
                                       call.Page_Out, call.Sector, NRF_ERROR_NO_MEM)
                        ELSE IF call.Page + 1 < S25FL064L_SECTOR_SIZE \div S25FL064L_PAGE_SIZE
                        THEN MemTestAt("write", call.Sector, call.Page + 1,
                                       call.Page_Out, call.Sector, 0)
                        ELSE IF call.Sector + 1 < S25FL064L_SECTOR_COUNT
                        THEN MemTestAt("erase", call.Sector + 1, 0, call.Page_Out,
                                       call.Sector, 0)
                        ELSE MemTestAt("returned", call.Sector, call.Page,
                                       call.Page_Out, call.Sector, NRF_SUCCESS))

NextMemTest ==
    \/ MemTestStart
    \/ MemTestErase
    \/ MemTestWrite
    \/ MemTestRead

SpecMemTest == InitBlock /\ [][NextMemTest]_vars

(***************************************************************************)
(* SpecFile: FileSystem_WriteTestFile with every combination of results of *)
(* LittleFS.                                                               *)
(***************************************************************************)
NextFile == DoWriteTestFile(MaxFileOps)

SpecFile == InitBlock /\ [][NextFile]_vars

(***************************************************************************)
(* SpecAbsent: the driver's functions on handles whose p_CS or p_RW is     *)
(* NULL, handles that were never initialized and handles whose pointers    *)
(* were cleared after S25FL064L_Init.                                      *)
(***************************************************************************)
InitAbsent ==
    /\ chip \in FreshChips
    /\ \E ready \in BOOLEAN, hasCS \in BOOLEAN, hasRW \in BOOLEAN :
          /\ ~(hasCS /\ hasRW)
          /\ \E b \in {IF ready
                        THEN S25FL064L_Init(FreshHandle, World(chip, FALSE, NoFault(0))).h
                        ELSE FreshHandle} :
                h = [b EXCEPT !.p_CS = hasCS, !.p_RW = hasRW]
          /\ life = IF ready THEN "initOK" ELSE "none"
    /\ cs = FALSE
    /\ last = NoCall
    /\ prev = Summary(NoCall)
    /\ nops = 0
    /\ call = Idle

NextAbsent ==
    \/ DoInit(MaxAbsentOps, NoFailure)
    \/ DoGetError(MaxAbsentOps, NoFailure)
    \/ DoEnterPowerDown(MaxAbsentOps, NoFailure)
    \/ DoLeavePowerDown(MaxAbsentOps, {NoFault(0)}, NoFailure)
    \/ DoEraseSector(MaxAbsentOps, {NoFault(0)}, NoFailure, {0, S25FL064L_SECTOR_SIZE})
    \/ DoEraseChip(MaxAbsentOps, {NoFault(0)}, NoFailure)
    \/ DoWrite(MaxAbsentOps, {NoFault(0)}, NoFailure, {0},
               {1, S25FL064L_PAGE_SIZE + 1}, {Buf(1, 0)})
    \/ DoReadUndefined(MaxAbsentOps, {0}, {1, S25FL064L_PAGE_SIZE})

SpecAbsent == InitAbsent /\ [][NextAbsent]_vars

(***************************************************************************)
(* SpecErr: the transport fails at any exchange of any call, with one of   *)
(* two values of s25fl064_error_t.                                         *)
(***************************************************************************)
NextErr ==
    \/ DoInit(MaxErrOps, AnyFailCodes)
    \/ DoReset(MaxErrOps)
    \/ DoGetError(MaxErrOps, AnyFailCodes)
    \/ DoEnterPowerDown(MaxErrOps, AnyFailCodes)
    \/ DoLeavePowerDown(MaxErrOps, {NoFault(0)}, AnyFailCodes)
    \/ DoEraseSector(MaxErrOps, {NoFault(0)}, AnyFailCodes, {0})
    \/ DoEraseChip(MaxErrOps, {NoFault(0)}, AnyFailCodes)
    \/ DoWrite(MaxErrOps, {NoFault(0)}, AnyFailCodes, {0}, {1, S25FL064L_PAGE_SIZE + 1},
               {Buf(1, 0)})
    \/ DoRead(MaxErrOps, AnyFailCodes, {0}, {1})

SpecErr == InitBusy /\ [][NextErr]_vars

(***************************************************************************)
(* SpecStep: the calls that poll, followed from one iteration of           *)
(* S25FL064L_WaitBusy to the next.  No exchange fails.  In this            *)
(* specification the chip ends its operation in the step ChipReady, not by *)
(* being polled, so a call may poll any number of times.                   *)
(***************************************************************************)
StepOps == {"EraseSector", "EraseChip", "LeavePowerDown", "Write", "EnterPowerDown"}
StepLens == {1, S25FL064L_PAGE_SIZE + 1}
\* the chip sets its latch on every write enable, or on none
StepEnvs == {NoFault(1), [busy |-> 1, welFrom |-> 1, failAt |-> 0, code |-> 0]}

\* a public function is called
StepCall ==
    /\ call.phase = "idle"
    /\ nops < MaxStepOps
    /\ \E op \in StepOps, env \in StepEnvs :
       \E Length \in IF op = "Write" THEN StepLens ELSE {0} :
          call' = [Idle EXCEPT !.phase = "called", !.op = op, !.env = env,
                               !.len = Length,
                               !.buf = IF op = "Write" THEN Buf(1, 0) ELSE NoBuf]
    /\ nops' = nops + 1
    /\ UNCHANGED <<h, chip, cs, last, prev, life>>

\* the call returns err
Return(hh, w, err) ==
    /\ h' = hh
    /\ chip' = w.c
    /\ cs' = w.cs
    /\ call' = [call EXCEPT !.phase = "idle", !.ret = err]

\* the call enters S25FL064L_WaitBusy; after it comes where
Wait(w, where, st) ==
    /\ h' = h
    /\ chip' = w.c
    /\ cs' = w.cs
    /\ call' = [call EXCEPT !.phase = "poll", !.where = where, !.st = st]

\* the function runs up to its first busy poll, or to its return
StepSend ==
    /\ call.phase = "called"
    /\ \E w \in {World(chip, cs, call.env)} :
       \E r \in {IF call.op = "EraseSector" THEN EraseSectorSend(h, w, call.addr)
                  ELSE IF call.op = "EraseChip" THEN EraseChipSend(h, w)
                  ELSE IF call.op = "LeavePowerDown" THEN LeavePowerDownSend(h, w)
                  ELSE IF call.op = "EnterPowerDown" THEN S25FL064L_EnterPowerDown(h, w)
                  ELSE Let(PageSend(h, w, call.buf, WriteStart(call.addr, call.len)),
                           LAMBDA s : Ret(h, s.w, s.err))} :
          IF r.err # S25FL064_NO_ERROR \/ call.op = "EnterPowerDown"
          THEN Return(r.h, r.w, r.err)
          ELSE Wait(r.w, IF call.op = "Write" THEN "page" ELSE "end",
                    WriteStart(call.addr, call.len))
    /\ UNCHANGED <<last, prev, life, nops>>

\* the poll has returned e: the function goes on to its return or to its
\* next busy poll
AfterPoll(e) ==
    IF call.where = "page"
    THEN \E p \in {PageDone(e, call.st)} :
            IF p.err # S25FL064_NO_ERROR THEN Return(h, p.w, p.err)
            ELSE IF p.again
            THEN \E s \in {PageSend(h, p.w, call.buf, p.st)} :
                    IF s.err # S25FL064_NO_ERROR THEN Return(h, s.w, s.err)
                    ELSE Wait(s.w, "page", p.st)
            ELSE Wait(p.w, "final", p.st)
    ELSE IF call.op = "LeavePowerDown"
    THEN \E r \in {LeavePowerDownDone(h, e)} : Return(r.h, r.w, r.err)
    ELSE Return(h, e.w, e.err)

\* one iteration of the loop of S25FL064L_WaitBusy and, when the loop ends,
\* what the function does up to its next poll
StepPoll ==
    /\ call.phase = "poll"
    /\ \E r \in {WaitBusyStep(h, World(chip, cs, call.env))} :
          IF r.again
          THEN /\ call' = [call EXCEPT !.polls = Min(call.polls + 1, MaxPolls)]
               /\ cs' = r.w.cs
               /\ UNCHANGED <<h, chip>>
          ELSE AfterPoll([w |-> r.w, err |-> r.err])
    /\ UNCHANGED <<last, prev, life, nops>>

NextStep ==
    \/ StepCall
    \/ StepSend
    \/ StepPoll
    \/ ChipReady

\* the calling context runs on, and the chip ends every operation it started
SpecStep ==
    /\ Init
    /\ [][NextStep]_vars
    /\ WF_vars(StepSend)
    /\ WF_vars(StepPoll)
    /\ WF_vars(ChipReady)

(***************************************************************************)
(* Observations of the bus log of the last call.                           *)
(***************************************************************************)
\* frame i is a page program, a sector erase or a chip erase
IsProgramOrErase(log, i) ==
    \/ FrameIs(log, i, S25FL064L_CMD_4PP)
    \/ FrameIs(log, i, S25FL064L_CMD_SE)
    \/ FrameIs(log, i, S25FL064L_CMD_CE)

FramesBefore(log, i) == {j \in 1..(i - 1) : IsFrame(log, j)}

\* the frame sent last before entry i (0: none)
LastFrameBefore(log, i) ==
    IF FramesBefore(log, i) = {} THEN 0
    ELSE CHOOSE j \in FramesBefore(log, i) : \A k \in FramesBefore(log, i) : k <= j

\* entry i is an answered status read that follows a write enable
StatusAfterWren(log, i) ==
    /\ FrameIs(log, i, S25FL064L_CMD_RDSR1)
    /\ log[i].err = S25FL064_NO_ERROR
    /\ LastFrameBefore(log, i) > 0
    /\ FrameIs(log, LastFrameBefore(log, i), S25FL064L_CMD_WREN)

\* the number of page program frames up to entry i
PagesUpTo(log, i) == Cardinality({j \in 1..i : FrameIs(log, j, S25FL064L_CMD_4PP)})

DataOps == {"Read", "Write", "EraseSector", "EraseChip"}

(***************************************************************************)
(* C1.  In S25FL064L_Write, for every page: when the status register read  *)
(* after the write enable reports the write-enable latch (bit 1) clear,    *)
(* the call returns S25FL064_WRITE_PROTECTED and makes no further          *)
(* exchange: no page program frame and no payload for that page or a       *)
(* later one.                                                              *)
(***************************************************************************)
C1_WriteProtected ==
    last.op = "Write" =>
        \A i \in 1..Len(last.log) :
            (StatusAfterWren(last.log, i)
             /\ ~Bit(last.log[i].rx[2], S25FL064L_BIT_WEL))
            => /\ last.ret = S25FL064_WRITE_PROTECTED
               /\ \A j \in (i + 1)..Len(last.log) : last.log[j].k # "rw"

\* the second page of a write is refused after the first was programmed
C1_Witness ==
    /\ last.op = "Write"
    /\ last.ret = S25FL064_WRITE_PROTECTED
    /\ PagesUpTo(last.log, Len(last.log)) = 1
    /\ \E i \in 1..Len(last.log) :
          /\ StatusAfterWren(last.log, i)
          /\ ~Bit(last.log[i].rx[2], S25FL064L_BIT_WEL)
          /\ PagesUpTo(last.log, i) = 1

\* the chip memory after the first page and the rest are written by two calls
SeparateCalls(hh, c, env, A, buf, Length) ==
    Let(S25FL064L_Write(hh, World(c, FALSE, env), A, buf, S25FL064L_PAGE_SIZE),
        LAMBDA r1 :
        IF Length > S25FL064L_PAGE_SIZE
        THEN S25FL064L_Write(r1.h, World(r1.w.c, r1.w.cs, env),
                             A + S25FL064L_PAGE_SIZE,
                             Buf(buf.pat, buf.base + S25FL064L_PAGE_SIZE),
                             Length - S25FL064L_PAGE_SIZE).w.c.mem
        ELSE r1.w.c.mem)

(***************************************************************************)
(* C2.  Chunking in S25FL064L_Write is transparent: a write of 256 or 257  *)
(* bytes of buffer B to a page-aligned address A leaves the chip memory as *)
(* the separate calls Write(A, B, 256) and (for 257) Write(A + 256,        *)
(* B + 256, 1) do, and the payload of the k-th page program starts at byte *)
(* 256 * (k - 1) of B, the last partial page included.                     *)
(***************************************************************************)
C2_ChunkingTransparent ==
    (/\ last.op = "Write"
     /\ last.ret = S25FL064_NO_ERROR
     /\ last.addr % S25FL064L_PAGE_SIZE = 0
     /\ last.len \in {S25FL064L_PAGE_SIZE, S25FL064L_PAGE_SIZE + 1})
    => /\ chip.mem = SeparateCalls(last.h0, last.c0, last.env, last.addr,
                                   last.buf, last.len)
       /\ \A i \in 2..Len(last.log) :
             (FrameIs(last.log, i - 1, S25FL064L_CMD_4PP) /\ last.log[i].k = "rw")
             => last.log[i].off
                = S25FL064L_PAGE_SIZE * (PagesUpTo(last.log, i) - 1)

(***************************************************************************)
(* C3.  Read after write: with no transport failure, a read of a range,    *)
(* then a successful write of different data to that range (the range is   *)
(* erased, the data is not the erased value), then a read of the same      *)
(* range returns exactly the bytes written.                                *)
(***************************************************************************)
C3_ReadAfterWrite ==
    (/\ last.op = "Read" /\ last.ret = S25FL064_NO_ERROR
     /\ prev.op = "Write" /\ prev.ret = S25FL064_NO_ERROR
     /\ prev.addr = last.addr /\ prev.len = last.len
     /\ prev.b = [op |-> "Read", addr |-> last.addr, len |-> last.len,
                  ret |-> S25FL064_NO_ERROR]
     /\ MemRange(prev.mem0, last.addr, last.len) = [i \in 1..last.len |-> ErasedByte])
    => last.data = BufBytes(prev.buf.pat, prev.buf.base, 0, last.len)

\* the erase block an address lies in
BlockOf(a) == a \div S25FL064L_SECTOR_SIZE

(***************************************************************************)
(* C4.  For every block k: after Flash_Write has written a pattern to the  *)
(* whole block k and Flash_Erase of block k has returned 0, Flash_Read of  *)
(* any range inside block k returns only the erased value 255; and an      *)
(* erase of block k that returns 0 leaves every other block unchanged.     *)
(***************************************************************************)
C4_EraseBlock ==
    /\ (/\ last.via = "adapter" /\ last.op = "Read" /\ last.ret = 0
        /\ prev.via = "adapter" /\ prev.op = "EraseSector" /\ prev.ret = 0
        /\ BlockOf(last.addr) = BlockOf(prev.addr)
        /\ prev.b = [op |-> "Write", addr |-> prev.addr,
                     len |-> S25FL064L_SECTOR_SIZE, ret |-> 0])
       => \A i \in 1..Len(last.data) : last.data[i] = ErasedByte
    /\ (last.via = "adapter" /\ last.op = "EraseSector" /\ last.ret = 0)
       => \A p \in DOMAIN last.c0.mem :
             BlockOf(p * S25FL064L_PAGE_SIZE) # BlockOf(last.addr)
             => PageAt(chip.mem, p) = last.c0.mem[p]

(***************************************************************************)
(* C5.  After any sequence of calls, calls that returned an error          *)
(* included, no page program, sector erase or chip erase frame is sent     *)
(* while the chip's write-in-progress bit of an earlier program or erase   *)
(* is still set.                                                           *)
(***************************************************************************)
C5_NoCommandWhileBusy ==
    \A i \in 1..Len(last.log) :
        IsProgramOrErase(last.log, i) => ~last.log[i].wip

(***************************************************************************)
(* C6.  Every sector erase, chip erase and page program frame is preceded, *)
(* in the same call, by a write enable, with nothing but status reads sent *)
(* between the two; hence every page of a write has a write enable of its  *)
(* own.                                                                    *)
(***************************************************************************)
C6_WriteEnableFirst ==
    \A i \in 1..Len(last.log) :
        IsProgramOrErase(last.log, i)
        => \E j \in 1..(i - 1) :
              /\ FrameIs(last.log, j, S25FL064L_CMD_WREN)
              /\ last.log[j].err = S25FL064_NO_ERROR
              /\ \A k \in (j + 1)..(i - 1) :
                    IsFrame(last.log, k) => FrameIs(last.log, k, S25FL064L_CMD_RDSR1)

\* a write of two pages, each programmed after its own write enable
C6_Witness ==
    /\ last.op = "Write"
    /\ last.ret = S25FL064_NO_ERROR
    /\ PagesUpTo(last.log, Len(last.log)) = 2
    /\ Cardinality({j \in 1..Len(last.log) :
                       FrameIs(last.log, j, S25FL064L_CMD_WREN)}) = 2

\* the write enable was sent and the chip's latch is clear after it
LatchRefused(log) ==
    \E j \in 1..Len(log) :
        /\ FrameIs(log, j, S25FL064L_CMD_WREN)
        /\ log[j].err = S25FL064_NO_ERROR
        /\ j + 1 <= Len(log)
        /\ log[j + 1].k = "cs"
        /\ \A k \in (j + 2)..Len(log) : ~log[k].wel
        /\ ~chip.wel

(***************************************************************************)
(* C7.  S25FL064L_EraseSector and S25FL064L_EraseChip treat a latch that   *)
(* is not set after the write enable as an error: they return              *)
(* S25FL064_WRITE_PROTECTED and send no sector erase or chip erase frame.  *)
(***************************************************************************)
C7_EraseNeedsLatch ==
    (last.op \in {"EraseSector", "EraseChip"} /\ LatchRefused(last.log))
    => /\ last.ret = S25FL064_WRITE_PROTECTED
       /\ ~HasFrame(last.log, S25FL064L_CMD_SE)
       /\ ~HasFrame(last.log, S25FL064L_CMD_CE)

(***************************************************************************)
(* C8.  No data operation runs on a handle that is not initialized: Read,  *)
(* Write, EraseSector and EraseChip called while isInitialized is false    *)
(* return S25FL064_NOT_INITIALIZED and make no exchange.                   *)
(***************************************************************************)
C8_NotInitialized ==
    (last.op \in DataOps /\ ~last.h0.isInitialized)
    => /\ last.ret = S25FL064_NOT_INITIALIZED
       /\ \A i \in 1..Len(last.log) : last.log[i].k # "rw"

(***************************************************************************)
(* C9.  isInitialized is true exactly when the most recent call of         *)
(* S25FL064L_Init or S25FL064L_Reset was an S25FL064L_Init in which leave  *)
(* power down, reset, ID read, unique ID read, parameter table read and    *)
(* configuration register read all succeeded.                              *)
(***************************************************************************)
C9_Lifecycle == h.isInitialized = (life = "initOK")

\* an initialized handle, then an S25FL064L_Init that fails
C9_Witness ==
    /\ last.op = "Init"
    /\ last.h0.isInitialized
    /\ life = "initFail"
    /\ ~h.isInitialized

Answers(log, opcode) ==
    {log[i].rx : i \in {j \in 1..Len(log) :
                          FrameIs(log, j, opcode) /\ log[j].err = S25FL064_NO_ERROR}}

(***************************************************************************)
(* C11.  If the device ID read during S25FL064L_Init differs from          *)
(* S25FL064L_DEVICE_ID (0x6017), then after the call isInitialized is      *)
(* false and BlockSize and Blocks of the handle are as before the call.    *)
(***************************************************************************)
C11_IdentityMismatch ==
    (/\ last.op = "Init"
     /\ \E rx \in Answers(last.log, S25FL064L_CMD_RDID) :
           rx[3] * 256 + rx[4] # S25FL064L_DEVICE_ID)
    => /\ ~h.isInitialized
       /\ h.BlockSize = last.h0.BlockSize
       /\ h.Blocks = last.h0.Blocks

\* the frames of a log that carry an address: read, page program, sector erase
AddressFrames(log) ==
    {i \in 1..Len(log) : \/ FrameIs(log, i, S25FL064L_CMD_4READ)
                          \/ FrameIs(log, i, S25FL064L_CMD_4PP)
                          \/ FrameIs(log, i, S25FL064L_CMD_SE)}

(***************************************************************************)
(* C12.  After a successful S25FL064L_Init, isShortAddress reflects bit 0  *)
(* of the configuration register 2 value read in the last step: true       *)
(* (3-byte addresses) when the bit is clear, false (4-byte addresses) when *)
(* it is set; and every read, page program and sector erase frame of an    *)
(* initialized handle carries 3 address bytes when isShortAddress is true  *)
(* and 4 when it is false.                                                 *)
(***************************************************************************)
C12_AddressWidth ==
    /\ (last.op = "Init" /\ last.ret = S25FL064_NO_ERROR)
       => \A rx \in Answers(last.log, S25FL064L_CMD_RDCR2) :
             h.isShortAddress = ~Bit(rx[2], S25FL064L_BIT_ADDR_LENGTH)
    /\ (last.op \in {"Read", "Write", "EraseSector"} /\ last.h0.isInitialized)
       => \A i \in AddressFrames(last.log) :
             last.log[i].len = 1 + (IF last.h0.isShortAddress THEN 3 ELSE 4)

\* the flags GetError reported, as the masks of S25FL064L_Defs.h read them
ProgErrorFlag(bits) == BitAnd(bits, S25FL064L_MASK_PROG_ERROR) # 0
EraseErrorFlag(bits) == BitAnd(bits, S25FL064L_MASK_ERASE_ERROR) # 0

\* status register 2 of the chip when the last call, a GetError, returned
Sr2AtReturn ==
    S25FL064L_GetError(last.h0, World(last.c0, last.cs0, last.env)).w.c.sr2

\* GetError read status register 2 first and sent the clear status command
\* only after the read was answered; the command cleared the latched bits
ReadThenClear ==
    /\ \A i \in 1..Len(last.log) :
          IsFrame(last.log, i)
          => \/ FrameIs(last.log, i, S25FL064L_CMD_RDSR2) /\ LastFrameBefore(last.log, i) = 0
             \/ /\ FrameIs(last.log, i, S25FL064L_CMD_CLSR)
                /\ LastFrameBefore(last.log, i) > 0
                /\ last.log[LastFrameBefore(last.log, i)].err = S25FL064_NO_ERROR
    /\ last.ret = S25FL064_NO_ERROR
       => /\ HasFrame(last.log, S25FL064L_CMD_CLSR)
          /\ ~Bit(Sr2AtReturn, 5) /\ ~Bit(Sr2AtReturn, 6)

(***************************************************************************)
(* C13.  S25FL064L_GetError reads status register 2 and reports, for every *)
(* register value, the flag S25FL064L_MASK_PROG_ERROR set exactly when     *)
(* register bit 5 is set and the flag S25FL064L_MASK_ERASE_ERROR set       *)
(* exactly when register bit 6 is set; only after that read it sends the   *)
(* clear status command, which clears the latched error bits in the chip.  *)
(***************************************************************************)
C13_GetError ==
    last.op = "GetError"
    => /\ ReadThenClear
       /\ \A rx \in Answers(last.log, S25FL064L_CMD_RDSR2) :
             /\ ProgErrorFlag(last.data[1]) = Bit(rx[2], 5)
             /\ EraseErrorFlag(last.data[1]) = Bit(rx[2], 6)

\* a latched program error alone is reported as a program error and cleared
C13_Witness ==
    /\ last.op = "GetError"
    /\ last.ret = S25FL064_NO_ERROR
    /\ last.c0.sr2 = ChipPErr
    /\ ProgErrorFlag(last.data[1]) /\ ~EraseErrorFlag(last.data[1])
    /\ Sr2AtReturn = 0

\* C13 with the bits as the claim has them: the program error flag from
\* register bit 6, the erase error flag from register bit 5
C13_AsStated ==
    last.op = "GetError"
    => /\ ReadThenClear
       /\ \A rx \in Answers(last.log, S25FL064L_CMD_RDSR2) :
             /\ ProgErrorFlag(last.data[1]) = Bit(rx[2], 6)
             /\ EraseErrorFlag(last.data[1]) = Bit(rx[2], 5)

\* the answered status reads of a busy poll: those that do not follow a write
\* enable
PollReads(log) ==
    {i \in 1..Len(log) : /\ FrameIs(log, i, S25FL064L_CMD_RDSR1)
                          /\ log[i].err = S25FL064_NO_ERROR
                          /\ ~StatusAfterWren(log, i)}

\* the release from power down was sent and the poll after it saw the chip
\* ready
LeaveCompleted(log) ==
    \E i \in 1..Len(log) :
        /\ FrameIs(log, i, S25FL064L_CMD_RES)
        /\ log[i].err = S25FL064_NO_ERROR
        /\ \E j \in PollReads(log) :
              /\ j > i
              /\ ~Bit(log[j].rx[2], S25FL064L_BIT_BUSY)
              /\ \A k \in i..j : log[k].k = "rw" => log[k].err = S25FL064_NO_ERROR

(***************************************************************************)
(* C14.  After every call isPowerDown is true exactly when the most recent *)
(* power command that completed was S25FL064L_EnterPowerDown: it is true   *)
(* after an EnterPowerDown that returned no error, false after a           *)
(* LeavePowerDown (called directly or as the first step of S25FL064L_Init) *)
(* whose busy poll has seen the chip ready, and as before the call after   *)
(* every other call, a power command whose exchange or busy poll failed    *)
(* included.                                                               *)
(***************************************************************************)
C14_PowerDown ==
    last.op # "none"
    => h.isPowerDown
       = (IF last.op = "EnterPowerDown" /\ last.ret = S25FL064_NO_ERROR THEN TRUE
          ELSE IF last.op \in {"LeavePowerDown", "Init"} /\ LeaveCompleted(last.log)
               THEN FALSE
          ELSE last.h0.isPowerDown)

\* a LeavePowerDown that polls the waking chip more than once and clears the
\* flag
C14_Witness ==
    /\ last.op = "LeavePowerDown"
    /\ last.ret = S25FL064_NO_ERROR
    /\ last.h0.isPowerDown
    /\ ~h.isPowerDown
    /\ Cardinality(PollReads(last.log)) >= 2

\* the calls that end in a busy poll
PolledOps == {"EraseSector", "EraseChip", "Write", "LeavePowerDown"}

\* frame i starts an operation of the chip: a program, an erase, the release
\* from power down
StartsOperation(log, i) ==
    IsProgramOrErase(log, i) \/ FrameIs(log, i, S25FL064L_CMD_RES)

\* after frame i the call sent nothing but status reads up to a read that
\* shows write-in-progress clear
PolledToEnd(log, i) ==
    \E j \in PollReads(log) :
        /\ j > i
        /\ ~Bit(log[j].rx[2], S25FL064L_BIT_BUSY)
        /\ \A k \in FramesBefore(log, j) : k > i => k \in PollReads(log)

(***************************************************************************)
(* C15.  S25FL064L_EraseSector, S25FL064L_EraseChip, S25FL064L_Write and   *)
(* S25FL064L_LeavePowerDown return S25FL064_NO_ERROR only after every      *)
(* program, erase and release command they sent, the last one included,    *)
(* was followed by status reads up to one that shows write-in-progress     *)
(* (bit 0) clear; and after a status read of a poll that the transport     *)
(* completed and that shows the bit set, the call does not return: its     *)
(* next frame is another status read, however many came before.            *)
(***************************************************************************)
C15_PolledToCompletion ==
    last.op \in PolledOps
    => /\ last.ret = S25FL064_NO_ERROR
          => /\ \A i \in 1..Len(last.log) :
                   StartsOperation(last.log, i) => PolledToEnd(last.log, i)
             /\ \E j \in PollReads(last.log) :
                   /\ ~Bit(last.log[j].rx[2], S25FL064L_BIT_BUSY)
                   /\ \A k \in (j + 1)..Len(last.log) : last.log[k].k # "rw"
       /\ \A i \in PollReads(last.log) :
             Bit(last.log[i].rx[2], S25FL064L_BIT_BUSY)
             => \E j \in (i + 1)..Len(last.log) :
                   /\ FrameIs(last.log, j, S25FL064L_CMD_RDSR1)
                   /\ LastFrameBefore(last.log, j) = i

\* an erase that returns after MaxPolls reads that show write-in-progress and
\* one that shows it clear
C15_Witness ==
    /\ last.op = "EraseSector"
    /\ last.ret = S25FL064_NO_ERROR
    /\ Cardinality({i \in PollReads(last.log) :
                       Bit(last.log[i].rx[2], S25FL064L_BIT_BUSY)}) = MaxPolls

\* the log of the last call, had the handle had a busy callback or none
Replay(busy) ==
    Let(World(last.c0, last.cs0, last.env), LAMBDA w :
    Let([last.h0 EXCEPT !.p_Busy = busy], LAMBDA hh :
        IF last.op = "EraseSector" THEN S25FL064L_EraseSector(hh, w, last.addr).w.log
        ELSE IF last.op = "EraseChip" THEN S25FL064L_EraseChip(hh, w).w.log
        ELSE IF last.op = "Write"
             THEN S25FL064L_Write(hh, w, last.addr, last.buf, last.len).w.log
        ELSE IF last.op = "LeavePowerDown" THEN S25FL064L_LeavePowerDown(hh, w).w.log
        ELSE S25FL064L_EnterPowerDown(hh, w).w.log))

\* a log without the invocations of the busy callback
WithoutBusy(log) == SelectSeq(log, LAMBDA e : e.k # "busy")

Executing(k) == nops = k /\ call.phase # "idle"
Returned(k) == nops = k /\ call.phase = "idle"

(***************************************************************************)
(* C16.  If no exchange fails and the chip ends every operation it         *)
(* started, every call of S25FL064L_EraseSector, S25FL064L_EraseChip,      *)
(* S25FL064L_LeavePowerDown and S25FL064L_Write returns: the first three   *)
(* with S25FL064_NO_ERROR, S25FL064L_Write with S25FL064_NO_ERROR or, when *)
(* the chip did not set its write-enable latch, S25FL064_WRITE_PROTECTED.  *)
(***************************************************************************)
C16_Returns ==
    \A k \in 1..MaxStepOps :
        Executing(k)
        ~> (/\ Returned(k)
            /\ \/ call.ret = S25FL064_NO_ERROR
               \/ call.op = "Write" /\ call.ret = S25FL064_WRITE_PROTECTED)

\* a write of two pages has returned after polls that saw the chip busy
C16_Witness ==
    /\ call.phase = "idle"
    /\ call.op = "Write"
    /\ call.len = S25FL064L_PAGE_SIZE + 1
    /\ call.ret = S25FL064_NO_ERROR
    /\ call.polls = MaxPolls
    /\ MemAt(chip.mem, S25FL064L_PAGE_SIZE) # ErasedByte

\* C16 as the claim has it: every call returns with success
C16_AsStated ==
    \A k \in 1..MaxStepOps :
        Executing(k) ~> (Returned(k) /\ call.ret = S25FL064_NO_ERROR)

(***************************************************************************)
(* C18.  S25FL064L_Write called with a NULL buffer, with length zero or    *)
(* with address zero returns S25FL064_INVALID_PARAM and neither moves chip *)
(* select nor exchanges anything on the bus.                               *)
(***************************************************************************)
C18_WriteRejects ==
    (/\ last.op = "Write"
     /\ last.via = "driver"
     /\ last.buf.null \/ last.len = 0 \/ last.addr = 0)
    => (last.ret = S25FL064_INVALID_PARAM /\ last.log = << >>)

(***************************************************************************)
(* C19.  A call in which an exchange of the transport failed with an error *)
(* code returns that error code.                                           *)
(***************************************************************************)
C19_ErrorsPropagated ==
    \A i \in 1..Len(last.log) :
        (last.log[i].k = "rw" /\ last.log[i].err # S25FL064_NO_ERROR)
        => last.ret = last.log[i].err

\* the driver function the last adapter call stands for, called in the same
\* state with the byte address of the block and the offset
DriverCall ==
    LET w == World(last.c0, last.cs0, last.env)
        a == last.blk * S25FL064L_SECTOR_SIZE + last.boff
    IN  IF last.op = "Read" THEN S25FL064L_Read(last.h0, w, a, FALSE, last.len)
        ELSE IF last.op = "Write" THEN S25FL064L_Write(last.h0, w, a, last.buf, last.len)
        ELSE S25FL064L_EraseSector(last.h0, w, a)

(***************************************************************************)
(* C20.  Flash_Read and Flash_Write do on the bus what S25FL064L_Read and  *)
(* S25FL064L_Write do with address Block * block_size + Offset and the     *)
(* given size, Flash_Erase what S25FL064L_EraseSector does with            *)
(* Block * block_size; each returns 0 when that driver call returns        *)
(* S25FL064_NO_ERROR and -1 for every other error code.                    *)
(***************************************************************************)
C20_AdapterDelegates ==
    last.via = "adapter"
    => \E d \in {DriverCall} :
          /\ last.log = d.w.log
          /\ chip = d.w.c
          /\ last.op = "Read" => last.data = d.buf
          /\ last.ret = (IF d.err = S25FL064_NO_ERROR THEN 0 ELSE -1)
          /\ \A i \in AddressFrames(last.log) :
                Tail(last.log[i].tx)
                    = AddrBytes(last.blk * S25FL064L_SECTOR_SIZE + last.boff)

\* Flash_Write at an offset of block 1 has returned -1 because the driver
\* returned S25FL064_WRITE_PROTECTED
C20_Witness ==
    /\ last.via = "adapter"
    /\ last.op = "Write"
    /\ last.blk = 1
    /\ last.boff = LFS_BUFFER_SIZE
    /\ last.ret = -1
    /\ DriverCall.err = S25FL064_WRITE_PROTECTED

\* the operations that move data or report on it
HandleOps == {"Read", "Write", "EraseSector", "EraseChip", "GetError"}

(***************************************************************************)
(* C21.  S25FL064L_Read, S25FL064L_Write, S25FL064L_EraseSector,           *)
(* S25FL064L_EraseChip and S25FL064L_GetError leave every field of the     *)
(* handle as it was, whether they succeed or fail; an initialized handle   *)
(* stays initialized across them.                                          *)
(***************************************************************************)
C21_HandleUnchanged ==
    /\ (last.op \in HandleOps /\ last.via = "driver") => h = last.h0
    /\ h.isInitialized

\* a data operation has failed on the initialized handle after another one
C21_Witness ==
    /\ last.op \in HandleOps
    /\ last.b.op \in HandleOps
    /\ last.ret # S25FL064_NO_ERROR
    /\ last.h0.isInitialized
    /\ h = last.h0

\* what S25FL064L_Init returned to the last call of FileSystem_Init
DriverInit ==
    S25FL064L_Init(FlashPointers(last.h0),
                   PinsAtInit(World(last.c0, last.cs0, last.env)))

(***************************************************************************)
(* C22.  FileSystem_Init returns NRF_SUCCESS exactly when S25FL064L_Init   *)
(* returned S25FL064_NO_ERROR, the device ID the chip answered is          *)
(* S25FL064L_DEVICE_ID and the handle is marked initialized; in every      *)
(* other case it returns NRF_ERROR_NO_MEM.                                 *)
(***************************************************************************)
C22_FileSystemInit ==
    last.op = "FileSystem_Init"
    => \E d \in {DriverInit} :
          /\ last.log = d.w.log
          /\ last.ret \in {NRF_SUCCESS, NRF_ERROR_NO_MEM}
          /\ last.ret = NRF_SUCCESS
             <=> (/\ d.err = S25FL064_NO_ERROR
                  /\ last.c0.did = S25FL064L_DEVICE_ID
                  /\ h.isInitialized)

\* FileSystem_Init has failed only because of the device ID
C22_Witness ==
    /\ last.op = "FileSystem_Init"
    /\ last.ret = NRF_ERROR_NO_MEM
    /\ DriverInit.err = S25FL064_NO_ERROR
    /\ h.isInitialized
    /\ last.c0.did # S25FL064L_DEVICE_ID

\* the entries of a log that drive the chip-select pin
DrivesSelect(log) == {i \in 1..Len(log) : log[i].k \in {"cs", "reset"}}

\* the chip-select line after entry i of the log of the last call (i = 0:
\* when the call began)
LineAfter(i) ==
    LET before == {j \in DrivesSelect(last.log) : j <= i}
    IN  IF before = {} THEN last.cs0
        ELSE last.log[CHOOSE j \in before : \A m \in before : m <= j].sel

(***************************************************************************)
(* C23.  Every exchange of the transport happens while chip select is      *)
(* asserted, chip select is never asserted while it is asserted, and chip  *)
(* select is released whenever a function of the driver has returned, with *)
(* or without an error.                                                    *)
(***************************************************************************)
C23_ChipSelect ==
    /\ cs = FALSE
    /\ \A i \in 1..Len(last.log) :
          /\ last.log[i].k = "rw" => LineAfter(i - 1)
          /\ (last.log[i].k = "cs" /\ last.log[i].sel) => ~LineAfter(i - 1)

\* a write has failed in the exchange of the last byte of a full page
C23_Witness ==
    /\ last.op = "Write"
    /\ last.ret # S25FL064_NO_ERROR
    /\ \E i \in 1..Len(last.log) :
          /\ last.log[i].k = "rw"
          /\ last.log[i].err # S25FL064_NO_ERROR
          /\ last.log[i].off = S25FL064L_PAGE_SIZE - 1
          /\ LineAfter(i)
    /\ cs = FALSE

\* the bytes the exchanges i..j of a log asked to receive
RECURSIVE Received(_, _, _)
Received(log, i, j) ==
    IF i > j THEN 0 ELSE log[i].rxn + Received(log, i + 1, j)

(***************************************************************************)
(* C24.  A successful S25FL064L_Read is one frame: chip select is asserted *)
(* once, the read command with the 4 bytes of Start is sent, the chunks    *)
(* follow with chip select asserted, chip select is released once after    *)
(* the last chunk; the chunk lengths sum to Length and the buffer holds    *)
(* the chip's bytes Start .. Start + Length - 1 in order.                  *)
(***************************************************************************)
C24_ReadOneFrame ==
    (last.op = "Read" /\ last.via = "driver" /\ last.ret = S25FL064_NO_ERROR)
    => \E n \in {Len(last.log)} :
          /\ n >= 4
          /\ last.log[1].k = "cs" /\ last.log[1].sel
          /\ last.log[2].k = "rw"
          /\ last.log[2].tx = << S25FL064L_CMD_4READ >> \o AddrBytes(last.addr)
          /\ last.log[2].rxn = 0
          /\ \A i \in 3..(n - 1) :
                /\ last.log[i].k = "rw"
                /\ last.log[i].len = 0
                /\ last.log[i].rxn \in 1..255
          /\ last.log[n].k = "cs" /\ ~last.log[n].sel
          /\ Received(last.log, 3, n - 1) = last.len
          /\ Len(last.data) = last.len
          /\ last.data = MemRange(last.c0.mem, last.addr, last.len)

\* a read of three chunks across the end of a sector has returned the page
\* written behind it
C24_Witness ==
    /\ last.op = "Read"
    /\ last.ret = S25FL064_NO_ERROR
    /\ last.addr = S25FL064L_SECTOR_SIZE - 1
    /\ last.len = 255 + S25FL064L_PAGE_SIZE
    /\ Len(last.log) = 6
    /\ last.data[2] # ErasedByte
    /\ last.data[2] # last.data[3]
    /\ last.data[S25FL064L_PAGE_SIZE + 2] = ErasedByte

\* the bytes of the caller's buffer that precede the page of the page
\* program frame i
PageStart(log, i) == S25FL064L_PAGE_SIZE * (PagesUpTo(log, i) - 1)

(***************************************************************************)
(* C25.  No exchange of S25FL064L_Read or S25FL064L_Write sends or         *)
(* receives more than 255 bytes.  S25FL064L_Write sends a full page as an  *)
(* exchange of 255 bytes and, next, an exchange of the last byte, with     *)
(* chip select asserted from the page program frame until after the last   *)
(* byte.                                                                   *)
(***************************************************************************)
C25_TransferLimit ==
    (last.op \in {"Read", "Write"} /\ last.via = "driver")
    => /\ \A i \in 1..Len(last.log) :
             last.log[i].k = "rw" => (last.log[i].len <= 255 /\ last.log[i].rxn <= 255)
       /\ last.op = "Write"
          => \A i \in 1..Len(last.log) :
                (/\ FrameIs(last.log, i, S25FL064L_CMD_4PP)
                 /\ last.len - PageStart(last.log, i) >= S25FL064L_PAGE_SIZE)
                => /\ i + 3 <= Len(last.log)
                   /\ last.log[i + 1].k = "rw"
                   /\ last.log[i + 1].len = 255
                   /\ last.log[i + 1].off = PageStart(last.log, i)
                   /\ last.log[i + 2].k = "rw"
                   /\ last.log[i + 2].len = 1
                   /\ last.log[i + 2].off = PageStart(last.log, i) + 255
                   /\ last.log[i + 3].k = "cs"
                   /\ ~last.log[i + 3].sel

\* a write of a full page and one more byte has returned
C25_Witness ==
    /\ last.op = "Write"
    /\ last.len = S25FL064L_PAGE_SIZE + 1
    /\ last.ret = S25FL064_NO_ERROR
    /\ \E i \in 1..Len(last.log) : last.log[i].k = "rw" /\ last.log[i].len = 255

\* the page program frames of a log
PageFrames(log) == {i \in 1..Len(log) : FrameIs(log, i, S25FL064L_CMD_4PP)}

\* the payload bytes sent after the page program frame i, up to the release
\* of chip select
RECURSIVE Payload(_, _)
Payload(log, i) ==
    IF i + 1 > Len(log) \/ log[i + 1].k # "rw" THEN 0
    ELSE log[i + 1].len + Payload(log, i + 1)

(***************************************************************************)
(* C26.  A S25FL064L_Write of Length > 0 bytes at Address in which nothing *)
(* fails sends ceil(Length / 256) page program frames; the k-th carries    *)
(* the address Address + 256 * (k - 1) and is followed by 256 payload      *)
(* bytes when at least 256 remain and by exactly the bytes that remain     *)
(* otherwise.                                                              *)
(***************************************************************************)
C26_WritePages ==
    (/\ last.op = "Write"
     /\ last.via = "driver"
     /\ last.len > 0
     /\ last.ret = S25FL064_NO_ERROR)
    => /\ Cardinality(PageFrames(last.log))
             = (last.len + S25FL064L_PAGE_SIZE - 1) \div S25FL064L_PAGE_SIZE
       /\ \A i \in PageFrames(last.log) :
             /\ Tail(last.log[i].tx) = AddrBytes(last.addr + PageStart(last.log, i))
             /\ Payload(last.log, i)
                   = Min(S25FL064L_PAGE_SIZE, last.len - PageStart(last.log, i))

\* a write of a page and a byte before the end of a sector has returned
C26_Witness ==
    /\ last.op = "Write"
    /\ last.addr = S25FL064L_SECTOR_SIZE - S25FL064L_PAGE_SIZE
    /\ last.len = S25FL064L_PAGE_SIZE + 1
    /\ last.ret = S25FL064_NO_ERROR
    /\ Cardinality(PageFrames(last.log)) = 2
    /\ MemAt(chip.mem, S25FL064L_SECTOR_SIZE) # ErasedByte

\* the exchanges of a log
Exchanged(log) == {i \in 1..Len(log) : log[i].k = "rw"}

\* the exchanges i and j of a log follow each other and send the same command
SameCommandAgain(log, i, j) ==
    /\ i < j
    /\ \A m \in Exchanged(log) : ~(i < m /\ m < j)
    /\ log[i].off = -1
    /\ log[i].len > 0
    /\ log[j].off = -1
    /\ log[j].tx = log[i].tx

(***************************************************************************)
(* C27.  After an exchange of the transport has failed, the function makes *)
(* no further exchange and returns an error.  The only command the driver  *)
(* sends twice in a row is the status read of a busy poll, after a read    *)
(* that succeeded.                                                         *)
(***************************************************************************)
C27_NoRetry ==
    /\ \A i \in Exchanged(last.log) :
          last.log[i].err # S25FL064_NO_ERROR
          => /\ \A j \in Exchanged(last.log) : j <= i
             /\ last.ret # S25FL064_NO_ERROR
    /\ \A i, j \in Exchanged(last.log) :
          SameCommandAgain(last.log, i, j)
          => /\ last.log[i].tx = << S25FL064L_CMD_RDSR1 >>
             /\ last.log[i].err = S25FL064_NO_ERROR

\* S25FL064L_Init has returned after the read of the device ID failed
C27_Witness ==
    /\ last.op = "Init"
    /\ last.ret # S25FL064_NO_ERROR
    /\ \E i \in Exchanged(last.log) :
          /\ last.log[i].tx[1] = S25FL064L_CMD_RDID
          /\ last.log[i].err # S25FL064_NO_ERROR
    /\ ~HasFrame(last.log, S25FL064L_CMD_RUID)
    /\ ~h.isInitialized

\* the command frames of a log
Commands(log) == {i \in Exchanged(log) : log[i].off = -1 /\ log[i].len > 0}

\* the opcodes of the commands of a log other than the status reads of the
\* busy poll, in the order they were sent
StepsOf(log) ==
    LET Step(e) == e.k = "rw" /\ e.off = -1 /\ e.len > 0
                   /\ e.tx[1] # S25FL064L_CMD_RDSR1
        sel == SelectSeq(log, Step)
    IN  [i \in 1..Len(sel) |-> sel[i].tx[1]]

\* the steps of S25FL064L_Init that send a command
InitSteps ==
    << S25FL064L_CMD_RES, S25FL064L_CMD_RDID, S25FL064L_CMD_RUID,
       S25FL064L_CMD_RSFDP, S25FL064L_CMD_RDCR2 >>

\* the reset pulses of a log
Resets(log) == {i \in 1..Len(log) : log[i].k = "reset"}

C29_RawMemTest ==
    call.phase = "memtest"
    => /\ last.op \in {"EraseSector", "Write", "Read"} => BlockOf(last.addr) = call.s0
       /\ (call.at = "returned" /\ call.ret = NRF_SUCCESS)
          => last.data = BufBytes(call.Page_Out.pat, call.Page_Out.base, 0,
                                  S25FL064L_PAGE_SIZE)

(***************************************************************************)
(* C30.  FileSystem_WriteTestFile returns NRF_SUCCESS only if the bytes    *)
(* read back equal the bytes written and lfs_mount, lfs_file_open and      *)
(* lfs_file_close all succeeded.                                           *)
(***************************************************************************)
C30_WriteTestFile ==
    (last.op = "WriteTestFile" /\ last.ret = NRF_SUCCESS)
    => /\ last.data = Test_Out
       /\ last.env.BytesOut = Len(Test_Out)
       /\ last.env.mount = 0
       /\ last.env.open = 0
       /\ last.env.close = 0

(***************************************************************************)
(* C31.  Init, GetError, EnterPowerDown, LeavePowerDown, EraseSector,      *)
(* EraseChip, Write and Read, called with a handle whose p_CS or p_RW is   *)
(* NULL, return S25FL064_INVALID_PARAM and call none of the handle's       *)
(* functions.                                                              *)
(***************************************************************************)
AbsentOps ==
    {"Init", "GetError", "EnterPowerDown", "LeavePowerDown", "EraseSector",
     "EraseChip", "Write", "Read"}

C31_AbsentPointers ==
    (last.op \in AbsentOps /\ (~last.h0.p_CS \/ ~last.h0.p_RW))
    => /\ last.ret = S25FL064_INVALID_PARAM
       /\ last.log = << >>

====
